---- MODULE Spec2Model ----
(***************************************************************************)
(* Model of aieng's edit application engine (src/aieng/diff.py,            *)
(* class DiffProcessor): validate_edit, apply_edit, apply_edits,           *)
(* preview_edits and generate_diff_text, over a project directory that     *)
(* holds one target path.                                                  *)
(*                                                                         *)
(* A text is a sequence of characters (one-character strings).  A path of  *)
(* the project directory is absent, a directory, or a file holding a text: *)
(* the text that open(path, encoding="utf-8") reads from it and writes to  *)
(* it, whose lines end with a line feed.                                   *)
(* Every call of DiffProcessor is one action: it starts from a project     *)
(* directory in any state and records its arguments, the state it started  *)
(* from and what it returned.                                              *)
(*                                                                         *)
(* The second part models the todo list of src/aieng/todo_manager.py       *)
(* (class TodoManager) and the third the execution loop of                 *)
(* src/aieng/orchestrator.py (process_user_request).  Each part has its    *)
(* own specification (Spec, SpecTodo, SpecLoop) and leaves the variables   *)
(* of the other parts as they are.  The fourth part follows one request    *)
(* through the body of the loop (SpecRequest): what the agent answered,    *)
(* the preview, the confirmation, apply_edits and the retry.  The last     *)
(* parts model one completion call with its retries (SpecClient), the      *)
(* processing of the model's answer for a todo (SpecAnswer) and the        *)
(* coercion of its list fields (SpecCoerce), and the loading indicator of  *)
(* src/aieng/ui.py with its animation thread (SpecLoading).                *)
(***************************************************************************)
EXTENDS Integers, Sequences, FiniteSets, TLC

VARIABLES
  fs,        \* the project directory: node -> absent | dir | file(text)
  op,        \* the DiffProcessor method that was called, "none" before it
  edits,     \* the FileEdit list that was passed to it
  results,   \* the DiffResult list it returned
  before,    \* fs when the call started
  previews,  \* what preview_edits returned
  todos,             \* TodoManager.todos: the list of Todo records
  current_todo_id,   \* TodoManager._current_todo_id, NoId for None
  call,              \* the TodoManager method called last: its argument,
                     \* the status the todo with that id had, what it
                     \* returned and the events it sent to the ui callback
  removed,           \* the ids remove_todo took from the list while their
                     \* todo was not completed
  pc,                \* where process_user_request stands
  todo_plan,         \* todo_plan.todos, the plan the agent generated
  remaining_todos,   \* the todos of the plan not yet taken up
  completed_todos,   \* the todos recorded as completed
  ready_todos,       \* the candidates of this iteration of the loop
  current_todo,      \* the todo being processed, <<>> when there is none
  todo_result,       \* what agent.process_todo returned last
  auto_accept,       \* config["auto_accept"]
  should_apply,      \* what ui.confirm_changes answered last
  all_edits,         \* the request's list of applied edits
  calls,             \* process_todo calls made for the current todo
  errors,            \* ui.show_error calls made during the request
  raised,            \* exceptions raised during the request
  confirmed,         \* the edits of todo_result were shown and accepted
  incomplete,        \* ids of the todos that ended without edits and with
                     \* completed = false
  client,            \* whose completion call runs: LLMClient.execute or
                     \* Agent._call_llm_with_retry
  llm_pc,            \* where the completion call stands
  max_retries,       \* its max_retries argument
  attempt,           \* the loop variable of its for loop
  last_error,        \* its last_error, "None" before the first failure
  waits,             \* the seconds it has slept, one entry per sleep
  history,           \* what each of its attempts came to
  completion,        \* what the call returned or raised
  notified,          \* the events it sent to the ui callback, in order
  response,          \* the text of the model's answer for a todo
  outcome,           \* what processing the todo made of it
  raw,               \* the value of a list field of the parsed answer
  cleaned,           \* what the coercion of the field made of it
  loading_active,    \* TerminalUI.loading_active
  loading_live,      \* TerminalUI.loading_live: a Live display, NoLive for None
  loading_task,      \* TerminalUI.loading_task: a thread, NoThread for None
  lives,             \* the Live displays created so far, each with its state
  threads,           \* the animation threads started so far: where each stands
  ui_pc,             \* where the caller of start_loading / stop_loading stands
  ui_call            \* the method it called last and the flag it found

diffVars == <<fs, op, edits, results, before, previews>>
todoVars == <<todos, current_todo_id, call, removed>>
loopVars ==
  <<pc, todo_plan, remaining_todos, completed_todos, ready_todos, current_todo>>
requestVars ==
  <<todo_result, auto_accept, should_apply, all_edits, calls, errors, raised,
    confirmed>>
clientVars ==
  <<client, llm_pc, max_retries, attempt, last_error, waits, history,
    completion, notified>>
parseVars == <<response, outcome>>
coerceVars == <<raw, cleaned>>
uiVars ==
  <<loading_active, loading_live, loading_task, lives, threads, ui_pc, ui_call>>
laterVars ==
  <<requestVars, incomplete, clientVars, parseVars, coerceVars, uiVars>>
vars == <<diffVars, todoVars, loopVars, laterVars>>

----------------------------------------------------------------------------
(* Bounds *)

MaxLen == 3     \* longest text of a file when a call starts
MaxOld == 2     \* longest literal old_content
MaxBatch == 3   \* longest list given to apply_edits

----------------------------------------------------------------------------
(* Texts *)

\* The characters of the model: two letters and the line feed, which is the
\* whitespace of the texts and their line terminator.
Chars == {"a", "b", "\n"}

\* An unpaired surrogate code point (U+D800): a character a Python str can
\* hold (json.loads accepts the escape) and UTF-8 cannot encode.
LoneSurrogate == "\\ud800"

Texts(n) == UNION {[1..k -> Chars] : k \in 0..n}

\* old_content == "REWRITE_ENTIRE_FILE"
REWRITE_ENTIRE_FILE ==
  <<"R","E","W","R","I","T","E","_","E","N","T","I","R","E","_","F","I","L","E">>

SetMin(S) == CHOOSE x \in S : \A y \in S : x <= y
SetMax(S) == CHOOSE x \in S : \A y \in S : x >= y

\* str.isspace for the characters of the model
IsSpace(c) == c \in {" ", "\n"}

\* str.strip()
Strip(s) ==
  LET keep == {i \in 1..Len(s) : ~IsSpace(s[i])}
  IN  IF keep = {} THEN <<>> ELSE SubSeq(s, SetMin(keep), SetMax(keep))

\* sub occurs in s at (1-based) position i
OccursAt(sub, s, i) ==
  /\ i >= 1
  /\ i + Len(sub) - 1 <= Len(s)
  /\ SubSeq(s, i, i + Len(sub) - 1) = sub

Occurrences(sub, s) == {i \in 1..(Len(s) + 1) : OccursAt(sub, s, i)}

\* s.startswith(sub)
StartsWith(sub, s) == OccursAt(sub, s, 1)

\* sub in s
Contains(sub, s) == Occurrences(sub, s) # {}

\* s.replace(old, new): every occurrence, left to right, none overlapping
RECURSIVE ReplaceEvery(_, _, _)
ReplaceEvery(s, old, new) ==
  IF old = <<>> \/ ~Contains(old, s) THEN s
  ELSE LET i == SetMin(Occurrences(old, s))
       IN  SubSeq(s, 1, i - 1) \o new
           \o ReplaceEvery(SubSeq(s, i + Len(old), Len(s)), old, new)

\* s.replace(old, new, 1)
ReplaceFirst(s, old, new) ==
  IF ~Contains(old, s) THEN s
  ELSE LET i == SetMin(Occurrences(old, s))
       IN  SubSeq(s, 1, i - 1) \o new \o SubSeq(s, i + Len(old), Len(s))

\* text.encode("utf-8") succeeds
Encodable(s) == \A i \in 1..Len(s) : s[i] # LoneSurrogate

----------------------------------------------------------------------------
(* The project directory *)

Nodes == {"a.txt"}

Absent == [kind |-> "absent", text |-> <<>>]
Dir == [kind |-> "dir", text |-> <<>>]
File(t) == [kind |-> "file", text |-> t]

NodeStates == {Absent, Dir} \cup {File(t) : t \in Texts(MaxLen)}

\* Path.exists()
Exists(f, n) == f[n].kind # "absent"

\* open(path, "r", encoding="utf-8").read(): raises on a missing path
\* (FileNotFoundError) and on a directory (IsADirectoryError)
ReadRaises(f, n) == f[n].kind # "file"
ReadText(f, n) == f[n].text

\* open(path, "w", encoding="utf-8") followed by f.write(text).  open raises
\* on a directory and changes nothing; otherwise it creates or truncates the
\* file, and write then raises when the text cannot be encoded, after the
\* truncation.
WriteText(f, n, text) ==
  IF f[n].kind = "dir" THEN [fs |-> f, raised |-> TRUE]
  ELSE IF ~Encodable(text) THEN [fs |-> [f EXCEPT ![n] = File(<<>>)], raised |-> TRUE]
  ELSE [fs |-> [f EXCEPT ![n] = File(text)], raised |-> FALSE]

\* Path.mkdir(parents=True, exist_ok=True): raises FileExistsError when the
\* path is a file
Mkdir(f, n) ==
  IF f[n].kind = "file" THEN [fs |-> f, raised |-> TRUE]
  ELSE [fs |-> [f EXCEPT ![n] = Dir], raised |-> FALSE]

----------------------------------------------------------------------------
(* FileEdit and DiffResult *)

\* file_path is the node it names below project_root (Path drops a trailing
\* separator) and whether the string ends with "/".
FileEdit(n, sep, old, new) ==
  [node |-> n, sep |-> sep, old_content |-> old, new_content |-> new]

DiffResult(success, error) == [success |-> success, error |-> error]

Ok == DiffResult(TRUE, "None")

\* not edit.old_content, without the strip
IsEmpty(s) == s = <<>>

\* not edit.old_content.strip()
IsBlank(s) == Strip(s) = <<>>

\* a test that never recognises the marker
IsNeverRewrite(s) == FALSE

\* edit.old_content == "REWRITE_ENTIRE_FILE"
IsRewrite(s) == s = REWRITE_ENTIRE_FILE

----------------------------------------------------------------------------
(* DiffProcessor.validate_edit *)

validate_edit(f, edit) ==
  LET n == edit.node IN
  IF IsBlank(edit.old_content) THEN
    IF Exists(f, n) THEN DiffResult(FALSE, "File already exists") ELSE Ok
  ELSE IF IsRewrite(edit.old_content) THEN
    IF ~Exists(f, n) THEN DiffResult(FALSE, "File does not exist") ELSE Ok
  ELSE IF ~Exists(f, n) THEN DiffResult(FALSE, "File does not exist")
  ELSE IF ReadRaises(f, n) THEN DiffResult(FALSE, "Error reading file")
  ELSE IF Strip(edit.old_content) = Strip(ReadText(f, n)) THEN Ok
  ELSE IF Contains(edit.old_content, ReadText(f, n)) THEN Ok
  ELSE DiffResult(FALSE, "Content validation will fail")

----------------------------------------------------------------------------
(* DiffProcessor.apply_edit: the project directory it leaves and the       *)
(* DiffResult it returns.  Every exception is caught by the handler at the *)
(* end of the method and becomes DiffResult(False, "Error applying edit"). *)

\* a handler that reports the exception as a success
RaisedUnreported(f) == [fs |-> f, result |-> Ok]

Raised(f) == [fs |-> f, result |-> DiffResult(FALSE, "Error applying edit")]

\* with open(file_path, "w") as f: f.write(text); return DiffResult(True)
WriteAndReturn(f, n, text) ==
  LET w == WriteText(f, n, text)
  IN  IF w.raised THEN Raised(w.fs) ELSE [fs |-> w.fs, result |-> Ok]

\* apply_edit with the two tests of a literal old_content in the order of
\* preview_edits: the substring first
apply_edit_substring_first(f, edit) ==
  LET n == edit.node IN
  IF edit.sep THEN
    LET m == Mkdir(f, n)
    IN  IF m.raised THEN Raised(m.fs) ELSE [fs |-> m.fs, result |-> Ok]
  ELSE IF IsBlank(edit.old_content) THEN
    WriteAndReturn(f, n, edit.new_content)
  ELSE IF IsRewrite(edit.old_content) THEN
    WriteAndReturn(f, n, edit.new_content)
  ELSE IF ReadRaises(f, n) THEN Raised(f)
  ELSE LET current_content == ReadText(f, n) IN
    IF Contains(edit.old_content, current_content) THEN
      WriteAndReturn(f, n,
        ReplaceFirst(current_content, edit.old_content, edit.new_content))
    ELSE IF Strip(edit.old_content) = Strip(current_content) THEN
      WriteAndReturn(f, n, edit.new_content)
    ELSE [fs |-> f, result |-> DiffResult(FALSE, "Old content not found")]

apply_edit(f, edit) ==
  LET n == edit.node IN
  IF edit.sep THEN
    LET m == Mkdir(f, n)
    IN  IF m.raised THEN Raised(m.fs) ELSE [fs |-> m.fs, result |-> Ok]
  ELSE IF IsBlank(edit.old_content) THEN
    \* file_path.parent is project_root, which exists: mkdir changes nothing
    WriteAndReturn(f, n, edit.new_content)
  ELSE IF IsRewrite(edit.old_content) THEN
    WriteAndReturn(f, n, edit.new_content)
  ELSE IF ReadRaises(f, n) THEN Raised(f)
  ELSE LET current_content == ReadText(f, n) IN
    IF Strip(edit.old_content) = Strip(current_content) THEN
      WriteAndReturn(f, n, edit.new_content)
    ELSE IF Contains(edit.old_content, current_content) THEN
      WriteAndReturn(f, n,
        ReplaceFirst(current_content, edit.old_content, edit.new_content))
    ELSE [fs |-> f, result |-> DiffResult(FALSE, "Old content not found")]

----------------------------------------------------------------------------
(* DiffProcessor.apply_edits: the loop over the list, which appends each   *)
(* result and breaks after the first one that is not a success.            *)

\* the same loop without the break
RECURSIVE apply_edits_no_break(_, _, _, _)
apply_edits_no_break(f, es, i, acc) ==
  IF i > Len(es) THEN [fs |-> f, results |-> acc]
  ELSE LET r == apply_edit(f, es[i])
       IN  apply_edits_no_break(r.fs, es, i + 1, Append(acc, r.result))

RECURSIVE apply_edits_from(_, _, _, _)
apply_edits_from(f, es, i, acc) ==
  IF i > Len(es) THEN [fs |-> f, results |-> acc]
  ELSE LET r == apply_edit(f, es[i])
       IN  IF ~r.result.success
           THEN [fs |-> r.fs, results |-> Append(acc, r.result)]
           ELSE apply_edits_from(r.fs, es, i + 1, Append(acc, r.result))

apply_edits(f, es) == apply_edits_from(f, es, 1, <<>>)

----------------------------------------------------------------------------
(* DiffProcessor.generate_diff_text *)

\* str.splitlines(): the lines without their terminators; a final line
\* terminator opens no further line.
RECURSIVE SplitLines(_)
SplitLines(s) ==
  IF s = <<>> THEN <<>>
  ELSE LET nl == {i \in 1..Len(s) : s[i] = "\n"}
       IN  IF nl = {} THEN <<s>>
           ELSE LET i == SetMin(nl)
                IN  <<SubSeq(s, 1, i - 1)>> \o SplitLines(SubSeq(s, i + 1, Len(s)))

\* difflib.SequenceMatcher.find_longest_match without junk: the longest
\* block a[i:i+k] == b[j:j+k] inside a[alo:ahi], b[blo:bhi]; of the longest
\* blocks the one that starts earliest in a, and of those the one that
\* starts earliest in b; (alo, blo, 0) when no line matches.  Indices are
\* 0-based as in difflib.
find_longest_match(a, b, alo, ahi, blo, bhi) ==
  LET Min2(x, y) == IF x < y THEN x ELSE y
      blocks == {m \in (alo..(ahi - 1)) \X (blo..(bhi - 1)) \X (1..Min2(ahi - alo, bhi - blo)) :
                   /\ m[1] + m[3] <= ahi
                   /\ m[2] + m[3] <= bhi
                   /\ \A d \in 0..(m[3] - 1) : a[m[1] + d + 1] = b[m[2] + d + 1]}
      Better(m, o) == \/ m[3] > o[3]
                      \/ m[3] = o[3] /\ m[1] < o[1]
                      \/ m[3] = o[3] /\ m[1] = o[1] /\ m[2] <= o[2]
  IN  IF blocks = {} THEN <<alo, blo, 0>>
      ELSE CHOOSE m \in blocks : \A o \in blocks : Better(m, o)

\* difflib.SequenceMatcher.get_matching_blocks before the closing
\* (la, lb, 0) block: the longest match, then the matches to its left and to
\* its right, in increasing order.
RECURSIVE matching_blocks(_, _, _, _, _, _)
matching_blocks(a, b, alo, ahi, blo, bhi) ==
  LET m == find_longest_match(a, b, alo, ahi, blo, bhi)
      i == m[1]
      j == m[2]
      k == m[3]
  IN  IF k = 0 THEN <<>>
      ELSE (IF alo < i /\ blo < j THEN matching_blocks(a, b, alo, i, blo, j) ELSE <<>>)
           \o <<m>>
           \o (IF i + k < ahi /\ j + k < bhi
               THEN matching_blocks(a, b, i + k, ahi, j + k, bhi) ELSE <<>>)

get_matching_blocks(a, b) ==
  Append(matching_blocks(a, b, 0, Len(a), 0, Len(b)), <<Len(a), Len(b), 0>>)

Opcode(tag, i1, i2, j1, j2) == [tag |-> tag, i1 |-> i1, i2 |-> i2, j1 |-> j1, j2 |-> j2]

\* difflib.SequenceMatcher.get_opcodes: walks the matching blocks with the
\* cursor (i, j)
RECURSIVE opcodes_from(_, _, _, _)
opcodes_from(blocks, n, i, j) ==
  IF n > Len(blocks) THEN <<>>
  ELSE LET ai == blocks[n][1]
           bj == blocks[n][2]
           size == blocks[n][3]
           tag == IF i < ai /\ j < bj THEN "replace"
                  ELSE IF i < ai THEN "delete"
                  ELSE IF j < bj THEN "insert"
                  ELSE ""
       IN  (IF tag # "" THEN <<Opcode(tag, i, ai, j, bj)>> ELSE <<>>)
           \o (IF size > 0 THEN <<Opcode("equal", ai, ai + size, bj, bj + size)>> ELSE <<>>)
           \o opcodes_from(blocks, n + 1, ai + size, bj + size)

get_opcodes(a, b) == opcodes_from(get_matching_blocks(a, b), 1, 0, 0)

\* One entry of diff_lines: the "@@ -os,oc +ns,nc @@" header (nums holds the
\* four numbers) or a line of text behind the prefix " ", "-" or "+".
Header(os, oc, ns, nc) == [tag |-> "@@", text |-> <<>>, nums |-> <<os, oc, ns, nc>>]
DiffLine(tag, text) == [tag |-> tag, text |-> text, nums |-> <<>>]

\* [f" {lines[idx]}" for idx in range(lo, hi)], 0-based and half-open
Prefixed(tag, lines, lo, hi) ==
  [x \in 1..(IF hi > lo THEN hi - lo ELSE 0) |-> DiffLine(tag, lines[lo + x])]

context == 3

\* The chunk that generate_diff_text builds for one opcode
Chunk(old_lines, new_lines, oc) ==
  LET Max2(x, y) == IF x > y THEN x ELSE y
      Min2(x, y) == IF x < y THEN x ELSE y
      start_old == Max2(0, oc.i1 - context)
      end_old == Min2(Len(old_lines), oc.i2 + context)
      start_new == Max2(0, oc.j1 - context)
      end_new == Min2(Len(new_lines), oc.j2 + context)
  IN  <<Header(start_old + 1, end_old - start_old, start_new + 1, end_new - start_new)>>
      \o Prefixed(" ", old_lines, start_old, oc.i1)
      \o (IF oc.tag \in {"delete", "replace"}
          THEN Prefixed("-", old_lines, oc.i1, oc.i2) ELSE <<>>)
      \o (IF oc.tag \in {"insert", "replace"}
          THEN Prefixed("+", new_lines, oc.j1, oc.j2) ELSE <<>>)
      \o Prefixed(" ", old_lines, oc.i2, end_old)

\* The loop over the opcodes skips the equal ones and breaks after the first
\* chunk.
generate_diff_text(old_content, new_content) ==
  LET old_lines == SplitLines(old_content)
      new_lines == SplitLines(new_content)
      ops == get_opcodes(old_lines, new_lines)
      changed == {x \in 1..Len(ops) : ops[x].tag # "equal"}
  IN  IF changed = {} THEN <<>>
      ELSE Chunk(old_lines, new_lines, ops[SetMin(changed)])

----------------------------------------------------------------------------
(* DiffProcessor.preview_edits *)

\* The whole-file texts (before, after) that preview_edits hands to
\* generate_diff_text for one edit, or the error it reports instead.
PreviewTexts(old, new) == [error |-> "None", old |-> old, new |-> new]
PreviewError(e) == [error |-> e, old |-> <<>>, new |-> <<>>]

preview_texts(f, edit) ==
  LET n == edit.node IN
  IF IsBlank(edit.old_content) THEN PreviewTexts(<<>>, edit.new_content)
  ELSE IF IsRewrite(edit.old_content) THEN
    IF ~Exists(f, n) THEN PreviewError("File does not exist")
    ELSE IF ReadRaises(f, n) THEN PreviewError("Error reading")
    ELSE PreviewTexts(ReadText(f, n), edit.new_content)
  ELSE IF ~Exists(f, n) THEN PreviewError("File does not exist")
  ELSE IF ReadRaises(f, n) THEN PreviewError("Error reading")
  ELSE LET current_content == ReadText(f, n) IN
    IF Contains(edit.old_content, current_content) THEN
      PreviewTexts(current_content,
        ReplaceFirst(current_content, edit.old_content, edit.new_content))
    ELSE IF Strip(edit.old_content) = Strip(current_content) THEN
      PreviewTexts(current_content, edit.new_content)
    ELSE PreviewError("Old content not found")

Preview(error, diff) == [error |-> error, diff |-> diff]

preview_edits(f, es) ==
  [x \in 1..Len(es) |->
     LET t == preview_texts(f, es[x])
     IN  IF t.error # "None" THEN Preview(t.error, <<>>)
         ELSE Preview("None", generate_diff_text(t.old, t.new))]

----------------------------------------------------------------------------
(* The calls *)

\* old_content: empty, whitespace-only, a literal or the marker
OldContents == Texts(MaxOld) \cup {REWRITE_ENTIRE_FILE}

\* new_content: empty, one character, or text that cannot be encoded
NewContents == {<<>>} \cup {<<c>> : c \in Chars} \cup {<<LoneSurrogate>>}

FileEdits ==
  {FileEdit(n, sep, old, new) :
     n \in Nodes, sep \in BOOLEAN, old \in OldContents, new \in NewContents}

\* The edits of the lists given to apply_edits: a patch, a rewrite, a create
\* and a create whose text cannot be encoded
BatchEdits ==
  {FileEdit(n, FALSE, e[1], e[2]) :
     n \in Nodes,
     e \in {<<<<"a">>, <<"b">>>>, <<REWRITE_ENTIRE_FILE, <<>>>>,
            <<<<>>, <<"a">>>>, <<<<>>, <<LoneSurrogate>>>>}}

BatchLists == UNION {[1..k -> BatchEdits] : k \in 0..MaxBatch}

\* TodoManager.__init__: no todos, no current todo; no method called yet.
\* None is NoId where an id is expected (ids are positive) and the empty
\* sequence where a Todo is expected.
NoId == 0
NoCall ==
  [op |-> "none", arg |-> NoId, was |-> "none", ret |-> <<>>, events |-> <<>>]

NewTodoManager ==
  /\ todos = <<>>
  /\ current_todo_id = NoId
  /\ call = NoCall
  /\ removed = {}

\* process_user_request has been called and has made no plan yet
NewRequest ==
  /\ pc = "plan"
  /\ todo_plan = <<>>
  /\ remaining_todos = <<>>
  /\ completed_todos = <<>>
  /\ ready_todos = <<>>
  /\ current_todo = <<>>

\* Outside process_user_request: no answer of the agent, nothing applied,
\* nothing reported.
NoResult == [edits |-> <<>>, completed |-> FALSE]

NoRequestBody ==
  /\ todo_result = NoResult
  /\ should_apply = FALSE
  /\ all_edits = <<>>
  /\ calls = 0
  /\ errors = 0
  /\ raised = 0
  /\ confirmed = FALSE
  /\ incomplete = {}

\* No completion call has been made
NoCompletion ==
  /\ client = "none"
  /\ llm_pc = "idle"
  /\ max_retries = 0
  /\ attempt = 0
  /\ last_error = "None"
  /\ waits = <<>>
  /\ history = <<>>
  /\ completion = <<>>
  /\ notified = <<>>

\* No answer of the model is being processed
NoResponse ==
  /\ response = <<>>
  /\ outcome = <<>>

\* No list field is being coerced
NoCoercion ==
  /\ raw = <<>>
  /\ cleaned = <<>>

\* TerminalUI.__init__: no loading indicator, no call made yet
NoLive == 0
NoThread == 0
NoLoading ==
  /\ loading_active = FALSE
  /\ loading_live = NoLive
  /\ loading_task = NoThread
  /\ lives = <<>>
  /\ threads = <<>>
  /\ ui_pc = "idle"
  /\ ui_call = [op |-> "none", was |-> FALSE]

Init ==
  /\ fs \in [Nodes -> NodeStates]
  /\ op = "none"
  /\ edits = <<>>
  /\ results = <<>>
  /\ before = fs
  /\ previews = <<>>
  /\ NewTodoManager
  /\ NewRequest
  /\ NoRequestBody
  /\ NoCompletion
  /\ NoResponse
  /\ NoCoercion
  /\ NoLoading
  /\ auto_accept = FALSE

Validate(edit) ==
  /\ op = "none"
  /\ op' = "validate_edit"
  /\ edits' = <<edit>>
  /\ results' = <<validate_edit(fs, edit)>>
  /\ before' = fs
  /\ UNCHANGED <<fs, previews, todoVars, loopVars, laterVars>>

Apply(edit) ==
  /\ op = "none"
  /\ op' = "apply_edit"
  /\ edits' = <<edit>>
  /\ LET r == apply_edit(fs, edit)
     IN  /\ fs' = r.fs
         /\ results' = <<r.result>>
  /\ before' = fs
  /\ UNCHANGED <<previews, todoVars, loopVars, laterVars>>

ApplyAll(es) ==
  /\ op = "none"
  /\ op' = "apply_edits"
  /\ edits' = es
  /\ LET r == apply_edits(fs, es)
     IN  /\ fs' = r.fs
         /\ results' = r.results
  /\ before' = fs
  /\ UNCHANGED <<previews, todoVars, loopVars, laterVars>>

PreviewEdits(es) ==
  /\ op = "none"
  /\ op' = "preview_edits"
  /\ edits' = es
  /\ previews' = preview_edits(fs, es)
  /\ before' = fs
  /\ UNCHANGED <<fs, results, todoVars, loopVars, laterVars>>

\* The call has returned: the caller may make the next one, on a project
\* directory whose texts are still within the bound.
Return ==
  /\ op # "none"
  /\ \A n \in Nodes : Len(fs[n].text) <= MaxLen
  /\ op' = "none"
  /\ edits' = <<>>
  /\ results' = <<>>
  /\ before' = fs
  /\ previews' = <<>>
  /\ UNCHANGED <<fs, todoVars, loopVars, laterVars>>

Next ==
  \/ \E edit \in FileEdits : Validate(edit)
  \/ \E edit \in FileEdits : Apply(edit)
  \/ \E es \in BatchLists : ApplyAll(es)
  \/ \E edit \in FileEdits : PreviewEdits(<<edit>>)
  \/ Return

Spec == Init /\ [][Next]_vars

----------------------------------------------------------------------------
(* Properties.  They are stated over the record of the call (op, edits,    *)
(* results, before, previews) and the project directory it left (fs), with *)
(* their own reading of "whitespace-only", "stripped" and "occurs in".     *)

TheEdit == edits[1]
TheResult == results[1]
Target == TheEdit.node

Whitespace == {" ", "\n"}
WhitespaceOnly(s) == \A i \in 1..Len(s) : s[i] \in Whitespace
IsLiteral(s) == ~WhitespaceOnly(s) /\ s # REWRITE_ENTIRE_FILE

RECURSIVE Trimmed(_)
Trimmed(s) ==
  IF s = <<>> THEN s
  ELSE IF Head(s) \in Whitespace THEN Trimmed(Tail(s))
  ELSE IF s[Len(s)] \in Whitespace THEN Trimmed(SubSeq(s, 1, Len(s) - 1))
  ELSE s

\* the 0-based offsets at which frag occurs in text
Offsets(frag, text) ==
  {i \in 0..(Len(text) - Len(frag)) : \A k \in 1..Len(frag) : text[i + k] = frag[k]}

\* t is text with its first occurrence of frag replaced by new
IsFirstReplacement(t, text, frag, new) ==
  /\ Offsets(frag, text) # {}
  /\ LET first == SetMin(Offsets(frag, text))
     IN  t = SubSeq(text, 1, first) \o new
             \o SubSeq(text, first + Len(frag) + 1, Len(text))

Utf8Text(s) == \A i \in 1..Len(s) : s[i] \in Chars

\* apply_edit was called on a file path whose file holds a literal fragment
\* at least twice
PatchOfRepeatedFragment ==
  /\ op = "apply_edit"
  /\ ~TheEdit.sep
  /\ before[Target].kind = "file"
  /\ IsLiteral(TheEdit.old_content)
  /\ Cardinality(Offsets(TheEdit.old_content, before[Target].text)) >= 2

FirstOccurrenceReplaced ==
  /\ TheResult.success
  /\ fs[Target].kind = "file"
  /\ IsFirstReplacement(fs[Target].text, before[Target].text,
                        TheEdit.old_content, TheEdit.new_content)

C2_CreateOnlyPrecondition ==
  (op = "validate_edit" /\ WhitespaceOnly(TheEdit.old_content))
    => (TheResult.success <=> before[Target].kind = "absent")

\* a whitespace-only, non-empty old_content was rejected on an existing file
\* that holds that whitespace
C2_Witness ==
  /\ op = "validate_edit"
  /\ WhitespaceOnly(TheEdit.old_content)
  /\ TheEdit.old_content # <<>>
  /\ before[Target].kind = "file"
  /\ Offsets(TheEdit.old_content, before[Target].text) # {}
  /\ ~TheResult.success

\* C3: validate_edit of an edit whose old_content is REWRITE_ENTIRE_FILE
\* fails whenever the target path does not exist and succeeds whenever it
\* exists, whatever the new_content and the file's content.
C3_RewritePrecondition ==
  (op = "validate_edit" /\ TheEdit.old_content = REWRITE_ENTIRE_FILE)
    => (TheResult.success <=> before[Target].kind # "absent")

\* the marker was accepted on an existing file that does not contain it
C3_Witness ==
  /\ op = "validate_edit"
  /\ TheEdit.old_content = REWRITE_ENTIRE_FILE
  /\ before[Target].kind = "file"
  /\ before[Target].text # <<>>
  /\ TheResult.success

\* C4: for a literal old_content, validate_edit succeeds if and only if the
\* target file exists and either the stripped old_content equals the
\* stripped file content or old_content occurs in the file content.
C4_LiteralValidation ==
  (op = "validate_edit" /\ IsLiteral(TheEdit.old_content))
    => (TheResult.success <=>
          /\ before[Target].kind = "file"
          /\ \/ Trimmed(TheEdit.old_content) = Trimmed(before[Target].text)
             \/ Offsets(TheEdit.old_content, before[Target].text) # {})

\* a literal was accepted only because it equals the file when both are
\* stripped: it does not occur in the file
C4_Witness ==
  /\ op = "validate_edit"
  /\ IsLiteral(TheEdit.old_content)
  /\ before[Target].kind = "file"
  /\ Offsets(TheEdit.old_content, before[Target].text) = {}
  /\ TheResult.success

\* the project directory after apply_edit was run on es[1..k] in turn
RECURSIVE FsAfter(_, _, _)
FsAfter(f, es, k) ==
  IF k = 0 THEN f ELSE apply_edit(FsAfter(f, es, k - 1), es[k]).fs

\* the candidates that fail when they are run in list order
Failing(f, es) ==
  {i \in 1..Len(es) : ~apply_edit(FsAfter(f, es, i - 1), es[i]).result.success}

\* C5: apply_edits runs the candidates in list order and stops at the first
\* failure: there are k results where k is the position of the first failing
\* candidate (all of them when none fails), every result before the last is
\* a success, and the project directory is the one the first k candidates
\* leave: no later candidate is applied.
C5_StopAtFirstFailure ==
  op = "apply_edits" =>
    LET failing == Failing(before, edits)
        k == IF failing = {} THEN Len(edits) ELSE SetMin(failing)
    IN  /\ Len(results) = k
        /\ \A i \in 1..(k - 1) : results[i].success
        /\ failing # {} => ~results[k].success
        /\ failing = {} => \A i \in 1..k : results[i].success
        /\ fs = FsAfter(before, edits, k)

\* the first candidate succeeded, the second failed, and the third, which
\* would have succeeded and changed the file, was not run
C5_Witness ==
  /\ op = "apply_edits"
  /\ Len(edits) = 3
  /\ Len(results) = 2
  /\ results[1].success
  /\ ~results[2].success
  /\ apply_edit(fs, edits[3]).result.success
  /\ apply_edit(fs, edits[3]).fs # fs

\* C6: whenever apply_edit returns success=False, the target is as it was
\* before the call: same existence, same content.
C6_FailedApplyChangesNothing ==
  (op = "apply_edit" /\ ~TheResult.success) => fs[Target] = before[Target]

\* C7: apply_edit of a create candidate (empty or whitespace-only
\* old_content, path not ending in a separator) on a path where a file
\* exists fails and leaves the file's content unchanged.
C7_CreateDoesNotOverwrite ==
  (/\ op = "apply_edit"
   /\ ~TheEdit.sep
   /\ WhitespaceOnly(TheEdit.old_content)
   /\ before[Target].kind = "file")
    => (~TheResult.success /\ fs[Target] = before[Target])

\* C8: apply_edit succeeds exactly when validate_edit succeeds on the state
\* the call started from; with REWRITE_ENTIRE_FILE on a missing file it
\* fails and creates nothing.
C8_ApplyAgreesWithValidate ==
  op = "apply_edit" =>
    /\ TheResult.success <=> validate_edit(before, TheEdit).success
    /\ (TheEdit.old_content = REWRITE_ENTIRE_FILE /\ before[Target].kind = "absent")
         => (~TheResult.success /\ fs[Target].kind = "absent")

\* C9: validate_edit of an edit whose path ends with a separator succeeds,
\* whether or not the directory exists and whatever the old_content.
C9_DirectoryAlwaysValid ==
  (op = "validate_edit" /\ TheEdit.sep) => TheResult.success

\* the old lines with the chunk applied: the lines before the chunk's old
\* start, the chunk's context and "+" lines, and the old lines behind the
\* ones the chunk covers (its context and "-" lines)
Patched(old_lines, diff) ==
  IF diff = <<>> THEN old_lines
  ELSE LET body == Tail(diff)
           skip == diff[1].nums[1] - 1
           IsOld(l) == l.tag \in {" ", "-"}
           IsNew(l) == l.tag \in {" ", "+"}
           covered == Len(SelectSeq(body, IsOld))
           kept == SelectSeq(body, IsNew)
       IN  SubSeq(old_lines, 1, skip)
           \o [x \in 1..Len(kept) |-> kept[x].text]
           \o SubSeq(old_lines, skip + covered + 1, Len(old_lines))

\* C10: for the whole-file texts (old, new) of a create, a full rewrite or a
\* targeted patch, applying what generate_diff_text emits to the lines of
\* old gives the lines of new.
C10_DiffRoundTrip ==
  (op = "preview_edits" /\ previews[1].error = "None")
    => LET t == preview_texts(before, TheEdit)
       IN  Patched(SplitLines(t.old), previews[1].diff) = SplitLines(t.new)

----------------------------------------------------------------------------
(* TodoManager (src/aieng/todo_manager.py), over the Todo records of       *)
(* src/aieng/models.py.  A Todo is modelled by the fields the manager      *)
(* reads: id, priority, status, dependencies.                              *)

MaxId == 3       \* todo ids are 1..MaxId
MaxTodos == 2    \* the list holds at most MaxTodos todos

Ids == 1..MaxId

PENDING == "pending"
IN_PROGRESS == "in_progress"
COMPLETED == "completed"
TodoStatus == {PENDING, IN_PROGRESS, COMPLETED}

Priorities == {"high", "medium", "low"}
DependencyLists == {<<>>} \cup {<<d>> : d \in Ids}

Todo(id, priority, status, dependencies) ==
  [id |-> id, priority |-> priority, status |-> status,
   dependencies |-> dependencies]

is_pending(t) == t.status = PENDING
is_in_progress(t) == t.status = IN_PROGRESS
is_completed(t) == t.status = COMPLETED

\* for todo in self.todos: if todo.id == todo_id: ... break
\* the position of the first todo with this id, 0 when there is none
first_with_id(ts, todo_id) ==
  IF \E i \in 1..Len(ts) : ts[i].id = todo_id
  THEN SetMin({i \in 1..Len(ts) : ts[i].id = todo_id})
  ELSE 0

get_todo(ts, todo_id) ==
  IF first_with_id(ts, todo_id) = 0 THEN <<>>
  ELSE <<ts[first_with_id(ts, todo_id)]>>

\* get_current_todo: if self._current_todo_id is None: return None;
\* return self.get_todo(self._current_todo_id)
get_current_todo(ts, current) ==
  IF current = NoId THEN <<>> ELSE get_todo(ts, current)

\* list.pop() without its index: the last element goes
pop_last(ts, i) == SubSeq(ts, 1, Len(ts) - 1)

\* list.pop(i)
pop(ts, i) == SubSeq(ts, 1, i - 1) \o SubSeq(ts, i + 1, Len(ts))

\* a new id taken from the length of the list
new_id_by_length(ts) == Len(ts) + 1

\* max([t.id for t in self.todos], default=0) + 1
new_id(ts) ==
  IF ts = <<>> THEN 0 + 1
  ELSE SetMax({ts[i].id : i \in 1..Len(ts)}) + 1

completed_ids(ts) == {ts[i].id : i \in {j \in 1..Len(ts) : is_completed(ts[j])}}

deps_satisfied(ts, t) ==
  \A k \in 1..Len(t.dependencies) : t.dependencies[k] \in completed_ids(ts)

\* readiness that asks for "not completed" in place of "pending"
is_ready_unless_completed(ts, t) == ~is_completed(t) /\ deps_satisfied(ts, t)

is_ready(ts, t) == is_pending(t) /\ deps_satisfied(ts, t)

get_ready_todos(ts) == SelectSeq(ts, LAMBDA t : is_ready(ts, t))

\* the rank of a priority by its name's place in the alphabet
priority_alphabetical(p) ==
  CASE p = "high" -> 0
    [] p = "low" -> 1
    [] p = "medium" -> 2
    [] OTHER -> 1

\* priority_order.get(t.priority, 1)
priority_order(p) ==
  CASE p = "high" -> 0
    [] p = "medium" -> 1
    [] p = "low" -> 2
    [] OTHER -> 1

\* the tuple comparison (rank, id) < (rank, id)
key_less(a, b) ==
  \/ priority_order(a.priority) < priority_order(b.priority)
  \/ /\ priority_order(a.priority) = priority_order(b.priority)
     /\ a.id < b.id

\* list.sort(key=...) is stable: t goes behind every todo whose key is not
\* greater than its own
RECURSIVE insert_sorted(_, _)
insert_sorted(sorted, t) ==
  IF sorted = <<>> THEN <<t>>
  ELSE IF key_less(t, Head(sorted)) THEN <<t>> \o sorted
  ELSE <<Head(sorted)>> \o insert_sorted(Tail(sorted), t)

RECURSIVE sort(_)
sort(ts) ==
  IF ts = <<>> THEN <<>>
  ELSE insert_sorted(sort(SubSeq(ts, 1, Len(ts) - 1)), ts[Len(ts)])

get_next_todo(ts) ==
  IF get_ready_todos(ts) = <<>> THEN <<>>
  ELSE <<sort(get_ready_todos(ts))[1]>>

get_completed_todos(ts) == SelectSeq(ts, is_completed)

is_all_completed(ts) == \A i \in 1..Len(ts) : is_completed(ts[i])
\* remaining work counted as pending todos only
has_pending_work(ts) == \E i \in 1..Len(ts) : is_pending(ts[i])

has_remaining_work(ts) == \E i \in 1..Len(ts) : ~is_completed(ts[i])
get_progress(ts) == <<Len(get_completed_todos(ts)), Len(ts)>>

\* The plans a planner can hand to set_plan: todos with pairwise distinct
\* ids, in any order, with any status.
DistinctIds(ts) ==
  \A i, j \in 1..Len(ts) : ts[i].id = ts[j].id => i = j

PlanTodos ==
  {Todo(id, p, PENDING, d) : id \in Ids, p \in Priorities, d \in DependencyLists}
    \cup {Todo(id, "high", st, <<>>) : id \in Ids, st \in TodoStatus}

Plans ==
  {plan \in UNION {[1..k -> PlanTodos] : k \in 0..MaxTodos} : DistinctIds(plan)}

\* the status of the todo the call is about, as the call found it
status_of(ts, todo_id) ==
  IF get_todo(ts, todo_id) = <<>> THEN "none" ELSE get_todo(ts, todo_id)[1].status

Called(name, todo_id, ret, events) ==
  [op |-> name, arg |-> todo_id, was |-> status_of(todos, todo_id),
   ret |-> ret, events |-> events]

\* Only a new manager is given a plan: a plan is made once for a request.
set_plan(plan) ==
  /\ call = NoCall
  /\ todos' = [i \in 1..Len(plan) |-> [plan[i] EXCEPT !.status = PENDING]]
  /\ call' = Called("set_plan", NoId, <<>>, <<"plan_set">>)
  /\ UNCHANGED <<current_todo_id, removed, diffVars, loopVars, laterVars>>

\* mark_in_progress that records the current todo before it looks for it
mark_in_progress_pointer_first(todo_id) ==
  /\ current_todo_id' = todo_id
  /\ LET i == first_with_id(todos, todo_id)
     IN  IF i = 0
         THEN /\ call' = Called("mark_in_progress", todo_id, <<>>, <<>>)
              /\ UNCHANGED todos
         ELSE /\ todos' = [todos EXCEPT ![i].status = IN_PROGRESS]
              /\ call' = Called("mark_in_progress", todo_id, <<>>,
                                <<"todo_in_progress">>)
  /\ UNCHANGED <<removed, diffVars, loopVars, laterVars>>

mark_in_progress(todo_id) ==
  /\ LET i == first_with_id(todos, todo_id)
     IN  IF i = 0
         THEN /\ call' = Called("mark_in_progress", todo_id, <<>>, <<>>)
              /\ UNCHANGED <<todos, current_todo_id>>
         ELSE /\ todos' = [todos EXCEPT ![i].status = IN_PROGRESS]
              /\ current_todo_id' = todo_id
              /\ call' = Called("mark_in_progress", todo_id, <<>>,
                                <<"todo_in_progress">>)
  /\ UNCHANGED <<removed, diffVars, loopVars, laterVars>>

\* mark_completed that takes a todo only from in_progress
mark_completed_when_started(todo_id) ==
  /\ LET i == first_with_id(todos, todo_id)
     IN  IF i = 0 \/ (i # 0 /\ ~is_in_progress(todos[i]))
         THEN /\ call' = Called("mark_completed", todo_id, <<>>, <<>>)
              /\ UNCHANGED <<todos, current_todo_id>>
         ELSE /\ todos' = [todos EXCEPT ![i].status = COMPLETED]
              /\ current_todo_id' =
                   IF current_todo_id = todo_id THEN NoId ELSE current_todo_id
              /\ call' = Called("mark_completed", todo_id, <<>>,
                                <<"todo_completed">>)
  /\ UNCHANGED <<removed, diffVars, loopVars, laterVars>>

mark_completed(todo_id) ==
  /\ LET i == first_with_id(todos, todo_id)
     IN  IF i = 0
         THEN /\ call' = Called("mark_completed", todo_id, <<>>, <<>>)
              /\ UNCHANGED <<todos, current_todo_id>>
         ELSE /\ todos' = [todos EXCEPT ![i].status = COMPLETED]
              /\ current_todo_id' =
                   IF current_todo_id = todo_id THEN NoId ELSE current_todo_id
              /\ call' = Called("mark_completed", todo_id, <<>>,
                                <<"todo_completed">>)
  /\ UNCHANGED <<removed, diffVars, loopVars, laterVars>>

\* The list and the ids stay within the bounds.
add_todo(priority, dependencies) ==
  /\ Len(todos) < MaxTodos
  /\ new_id(todos) <= MaxId
  /\ LET new_todo == Todo(new_id(todos), priority, PENDING, dependencies)
     IN  /\ todos' = Append(todos, new_todo)
         /\ call' = Called("add_todo", NoId, <<new_todo>>, <<"todo_added">>)
  /\ UNCHANGED <<current_todo_id, removed, diffVars, loopVars, laterVars>>

remove_todo(todo_id) ==
  /\ LET i == first_with_id(todos, todo_id)
     IN  IF i = 0
         THEN /\ call' = Called("remove_todo", todo_id, <<FALSE>>, <<>>)
              /\ UNCHANGED todos
         ELSE /\ todos' = pop(todos, i)
              /\ call' = Called("remove_todo", todo_id, <<TRUE>>,
                                <<"todo_removed">>)
  /\ UNCHANGED <<current_todo_id, diffVars, loopVars, laterVars>>

InitTodo ==
  /\ fs = [n \in Nodes |-> Absent]
  /\ op = "none"
  /\ edits = <<>>
  /\ results = <<>>
  /\ before = fs
  /\ previews = <<>>
  /\ NewTodoManager
  /\ NewRequest
  /\ NoRequestBody
  /\ NoCompletion
  /\ NoResponse
  /\ NoCoercion
  /\ NoLoading
  /\ auto_accept = FALSE

NextTodo ==
  \/ \E plan \in Plans : set_plan(plan)
  \/ \E todo_id \in Ids : mark_in_progress(todo_id)
  \/ \E todo_id \in Ids : mark_completed(todo_id)
  \/ \E p \in Priorities, d \in DependencyLists : add_todo(p, d)
  \/ \E todo_id \in Ids : remove_todo(todo_id) /\ UNCHANGED removed

SpecTodo == InitTodo /\ [][NextTodo]_vars

\* The same calls, with a record of the ids whose todo remove_todo took from
\* the list before it was completed.
RemovedUncompleted(todo_id) ==
  IF get_todo(todos, todo_id) # <<>> /\ ~is_completed(get_todo(todos, todo_id)[1])
  THEN removed \cup {todo_id}
  ELSE removed

NextTodoHistory ==
  \/ \E plan \in Plans : set_plan(plan)
  \/ \E todo_id \in Ids : mark_in_progress(todo_id)
  \/ \E todo_id \in Ids : mark_completed(todo_id)
  \/ \E p \in Priorities, d \in DependencyLists : add_todo(p, d)
  \/ \E todo_id \in Ids :
       remove_todo(todo_id) /\ removed' = RemovedUncompleted(todo_id)

SpecTodoHistory == InitTodo /\ [][NextTodoHistory]_vars

----------------------------------------------------------------------------
(* Properties of the todo list.  A property of one call is stated over the *)
(* step that makes it: the step's second state records the call (call'),   *)
(* its first state is the list the call was made on.                       *)

Marks == {"mark_in_progress", "mark_completed"}

\* how far a status is along Pending -> InProgress -> Completed
Advance(status) ==
  CASE status = PENDING -> 0
    [] status = IN_PROGRESS -> 1
    [] status = COMPLETED -> 2

HasId(ts, id) == \E i \in 1..Len(ts) : ts[i].id = id
StatusOf(ts, id) == (CHOOSE t \in {ts[i] : i \in 1..Len(ts)} : t.id = id).status

\* C11: under mark_in_progress and mark_completed calls no task's status
\* moves backward: a Completed task stays Completed (also when
\* mark_in_progress is called on it) and an InProgress task never becomes
\* Pending.
C11_StatusMonotonic ==
  [][call'.op \in Marks =>
       \A i \in 1..Len(todos) :
         Advance(todos'[i].status) >= Advance(todos[i].status)]_vars

\* the ids of the Completed tasks, and the tasks that are Pending with every
\* dependency among them
CompletedIds(ts) ==
  {id \in Ids : \E i \in 1..Len(ts) : ts[i].id = id /\ ts[i].status = COMPLETED}

DependsOnlyOnCompleted(ts, t) ==
  \A d \in Ids :
    (\E k \in 1..Len(t.dependencies) : t.dependencies[k] = d) => d \in CompletedIds(ts)

InSeq(x, seq) == \E i \in 1..Len(seq) : seq[i] = x

\* C12: after mark_completed on a task that was still Pending the task is
\* Completed, its id is among the completed ids that get_ready_todos
\* computes, and every Pending task all of whose dependencies are completed
\* ids is in the eligible set from which get_next_todo returns.
C12_CompletePendingTask ==
  (call.op = "mark_completed" /\ call.was = PENDING) =>
    /\ StatusOf(todos, call.arg) = COMPLETED
    /\ call.arg \in completed_ids(todos)
    /\ \A i \in 1..Len(todos) :
         (todos[i].status = PENDING /\ DependsOnlyOnCompleted(todos, todos[i]))
           => /\ InSeq(todos[i], get_ready_todos(todos))
              /\ get_next_todo(todos) # <<>>

\* mark_completed(id) was called on the Pending task id, and a task that
\* depends on id is now returned by get_next_todo
C12_Witness ==
  /\ call.op = "mark_completed"
  /\ call.was = PENDING
  /\ get_next_todo(todos) # <<>>
  /\ get_next_todo(todos)[1].dependencies = <<call.arg>>

\* C13: mark_in_progress and mark_completed with an id that no task has
\* change no task, leave the current-task pointer as it is, send no
\* notification and return normally (None).
C13_UnknownIdIsNoOp ==
  [][(call'.op \in Marks /\ ~HasId(todos, call'.arg)) =>
       /\ todos' = todos
       /\ current_todo_id' = current_todo_id
       /\ call'.events = <<>>
       /\ call'.ret = <<>>]_vars

\* a mark call was made with an id no task had, on a list that has tasks
\* and a current task
C13_Witness ==
  /\ call.op \in Marks
  /\ call.was = "none"
  /\ todos # <<>>
  /\ current_todo_id # NoId

Eligible(ts, t) == t.status = PENDING /\ DependsOnlyOnCompleted(ts, t)

\* C14: in every state get_next_todo returns only a task of the list that
\* is Pending and whose every dependency id is the id of a Completed task
\* (so never an InProgress or Completed task, never one with an incomplete
\* dependency), and it returns None exactly when no such task exists.
C14_NextIsEligible ==
  /\ get_next_todo(todos) # <<>> =>
       /\ InSeq(get_next_todo(todos)[1], todos)
       /\ Eligible(todos, get_next_todo(todos)[1])
  /\ get_next_todo(todos) = <<>> <=>
       ~\E i \in 1..Len(todos) : Eligible(todos, todos[i])

\* a task was advanced to Completed and get_next_todo returns the task that
\* depends on it, not the advanced one
C14_Witness ==
  /\ get_next_todo(todos) # <<>>
  /\ get_next_todo(todos)[1].dependencies # <<>>
  /\ \E i \in 1..Len(todos) : todos[i].status = COMPLETED

Rank(priority) ==
  CASE priority = "high" -> 0
    [] priority = "medium" -> 1
    [] priority = "low" -> 2

\* a's key (priority rank, id) is not greater than b's
KeyNotGreater(a, b) ==
  \/ Rank(a.priority) < Rank(b.priority)
  \/ Rank(a.priority) = Rank(b.priority) /\ a.id <= b.id

Orders(n) ==
  {f \in [1..n -> 1..n] : \A i, j \in 1..n : f[i] = f[j] => i = j}

Permuted(ts, f) == [i \in 1..Len(ts) |-> ts[f[i]]]

\* C15: when some task is eligible, get_next_todo returns the eligible task
\* whose key (priority rank high=0, medium=1, low=2, then id) is minimal,
\* and returns the same task for every order of the list.
C15_NextIsMinimal ==
  (\E i \in 1..Len(todos) : Eligible(todos, todos[i])) =>
    /\ get_next_todo(todos) # <<>>
    /\ Eligible(todos, get_next_todo(todos)[1])
    /\ \A i \in 1..Len(todos) :
         Eligible(todos, todos[i]) =>
           KeyNotGreater(get_next_todo(todos)[1], todos[i])
    /\ \A f \in Orders(Len(todos)) :
         get_next_todo(Permuted(todos, f)) = get_next_todo(todos)

\* two tasks are eligible and the one returned is neither the first of the
\* list nor the one with the smaller id: its priority decides
C15_Witness ==
  /\ Len(todos) >= 2
  /\ Eligible(todos, todos[1])
  /\ get_next_todo(todos) = <<todos[2]>>
  /\ todos[1].id < todos[2].id

IdsIn(ts) == {ts[i].id : i \in 1..Len(ts)}
PairwiseDistinct(ts) == Cardinality(IdsIn(ts)) = Len(ts)

\* the greatest id in the list, 0 for the empty list
GreatestId(ts) ==
  IF ts = <<>> THEN 0
  ELSE CHOOSE m \in IdsIn(ts) : \A id \in IdsIn(ts) : id <= m

\* C16: add_todo appends one task to the end of the list, with id = the
\* greatest id in the list (0 if it is empty) + 1 and status Pending, and
\* returns it; and a list with pairwise distinct ids has pairwise distinct
\* ids after every add_todo and every remove_todo.
C16_AddTodoFreshId ==
  [][/\ call'.op = "add_todo" =>
          /\ Len(todos') = Len(todos) + 1
          /\ SubSeq(todos', 1, Len(todos)) = todos
          /\ todos'[Len(todos')].id = GreatestId(todos) + 1
          /\ todos'[Len(todos')].status = PENDING
          /\ call'.ret = <<todos'[Len(todos')]>>
     /\ (call'.op \in {"add_todo", "remove_todo"} /\ PairwiseDistinct(todos))
          => PairwiseDistinct(todos')]_vars

\* add_todo gave id 3 to the second task of the list: the first has id 2
C16_Witness ==
  /\ call.op = "add_todo"
  /\ Len(todos) = 2
  /\ todos[1].id = 2
  /\ call.ret = <<todos[2]>>
  /\ todos[2].id = 3

\* the list without the tasks whose id is id, the others as they were
Without(ts, id) == SelectSeq(ts, LAMBDA t : t.id # id)

\* C17: remove_todo(id) on a list that has a task with this id returns True
\* and leaves the list without that one task, every other task in its
\* order and with its status and dependencies (also those that depend on
\* id); on a list without such a task it returns False and changes nothing.
C17_RemoveExactlyOne ==
  [][call'.op = "remove_todo" =>
       IF HasId(todos, call'.arg)
       THEN /\ call'.ret = <<TRUE>>
            /\ Len(todos') = Len(todos) - 1
            /\ todos' = Without(todos, call'.arg)
            /\ current_todo_id' = current_todo_id
       ELSE /\ call'.ret = <<FALSE>>
            /\ todos' = todos
            /\ current_todo_id' = current_todo_id
            /\ call'.events = <<>>]_vars

\* remove_todo removed one task of two, and the one that is left depends on
\* the removed id
C17_Witness ==
  /\ call.op = "remove_todo"
  /\ call.ret = <<TRUE>>
  /\ Len(todos) = 1
  /\ todos[1].dependencies = <<call.arg>>
  /\ todos[1].id < call.arg

\* C18: once remove_todo has removed a task that was not Completed, no task
\* that lists the removed id among its dependencies is returned by
\* get_next_todo, whatever calls follow.
C18_OrphanNeverReturned ==
  get_next_todo(todos) # <<>> =>
    \A k \in 1..Len(get_next_todo(todos)[1].dependencies) :
      get_next_todo(todos)[1].dependencies[k] \notin removed

CompletedCount(ts) == Cardinality({i \in 1..Len(ts) : ts[i].status = COMPLETED})

\* C19: in every state of the list, is_all_completed is true exactly when
\* has_remaining_work is false, and exactly when the two numbers of
\* get_progress are equal; the two numbers are the number of Completed
\* tasks and the number of tasks.
C19_QueriesAgree ==
  /\ is_all_completed(todos) <=> ~has_remaining_work(todos)
  /\ get_progress(todos) = <<CompletedCount(todos), Len(todos)>>
  /\ is_all_completed(todos) <=> get_progress(todos)[1] = get_progress(todos)[2]

\* one task of two is Completed, the other is in progress: work remains
C19_Witness ==
  /\ Len(todos) = 2
  /\ get_progress(todos) = <<1, 2>>
  /\ \E i \in 1..2 : todos[i].status = IN_PROGRESS
  /\ has_remaining_work(todos)

----------------------------------------------------------------------------
(* The execution loop of AIAgentOrchestrator.process_user_request          *)
(* (src/aieng/orchestrator.py).  The plan is a list of the agent's Todo    *)
(* records (src/aieng/agent.py): id, priority, dependencies.  What the     *)
(* processing of one todo does to the loop is one of four things: the todo *)
(* is recorded as completed, it is left uncompleted and the loop goes on,  *)
(* the user rejects its edits, or an exception ends the request.           *)

AgentTodo(id, priority, dependencies) ==
  [id |-> id, priority |-> priority, dependencies |-> dependencies]

AgentTodos ==
  {AgentTodo(id, p, d) : id \in Ids, p \in Priorities, d \in DependencyLists}

\* The plans generate_todo_plan can return: todos with pairwise distinct
\* ids, in any order.
AgentPlans ==
  {plan \in UNION {[1..k -> AgentTodos] : k \in 0..MaxTodos} : DistinctIds(plan)}

\* [ct.id for ct in completed_todos]
completed_todo_ids(completed) == {completed[i].id : i \in 1..Len(completed)}

\* all(dep_id in [ct.id for ct in completed_todos] for dep_id in todo.dependencies)
all_deps_completed(todo, completed) ==
  \A k \in 1..Len(todo.dependencies) :
    todo.dependencies[k] \in completed_todo_ids(completed)

\* list.remove(x): the list without its first element equal to x
list_remove(seq, x) ==
  LET i == SetMin({j \in 1..Len(seq) : seq[j] = x})
  IN  SubSeq(seq, 1, i - 1) \o SubSeq(seq, i + 1, Len(seq))

generate_todo_plan(plan) ==
  /\ pc = "plan"
  /\ todo_plan' = plan
  /\ completed_todos' = <<>>
  /\ remaining_todos' = plan
  /\ pc' = "while"
  /\ UNCHANGED <<ready_todos, current_todo, diffVars, todoVars, laterVars>>

\* while remaining_todos: ready_todos = [todo for todo in remaining_todos if ...]
find_ready_todos ==
  /\ pc = "while"
  /\ remaining_todos # <<>>
  /\ ready_todos' =
       SelectSeq(remaining_todos, LAMBDA todo : all_deps_completed(todo, completed_todos))
  /\ pc' = "ready"
  /\ UNCHANGED <<todo_plan, remaining_todos, completed_todos, current_todo,
                 diffVars, todoVars, laterVars>>

\* an escape valve that takes the last of the remaining todos
escape_valve_takes_last ==
  /\ pc = "ready"
  /\ ready_todos = <<>>
  /\ ready_todos' = <<remaining_todos[Len(remaining_todos)]>>
  /\ pc' = "escaped"
  /\ UNCHANGED <<todo_plan, remaining_todos, completed_todos, current_todo,
                 diffVars, todoVars, laterVars>>

\* if not ready_todos: ready_todos = [remaining_todos[0]]
escape_valve ==
  /\ pc = "ready"
  /\ ready_todos = <<>>
  /\ ready_todos' = <<remaining_todos[1]>>
  /\ pc' = "escaped"
  /\ UNCHANGED <<todo_plan, remaining_todos, completed_todos, current_todo,
                 diffVars, todoVars, laterVars>>

\* a loop that takes up a todo and leaves it among the remaining ones
take_current_todo_and_keep ==
  /\ pc \in {"ready", "escaped"}
  /\ ready_todos # <<>>
  /\ current_todo' = <<ready_todos[1]>>
  /\ pc' = "process"
  /\ UNCHANGED <<todo_plan, remaining_todos, completed_todos, ready_todos,
                 diffVars, todoVars, laterVars>>

\* current_todo = ready_todos[0]; remaining_todos.remove(current_todo)
take_current_todo ==
  /\ pc \in {"ready", "escaped"}
  /\ ready_todos # <<>>
  /\ current_todo' = <<ready_todos[1]>>
  /\ remaining_todos' = list_remove(remaining_todos, ready_todos[1])
  /\ pc' = "process"
  /\ UNCHANGED <<todo_plan, completed_todos, ready_todos, diffVars, todoVars, laterVars>>

\* completed_todos.append(current_todo): every edit applied, at once or on
\* the retry, or no edit and the result says completed
todo_completed ==
  /\ pc = "process"
  /\ completed_todos' = Append(completed_todos, current_todo[1])
  /\ pc' = "while"
  /\ UNCHANGED <<todo_plan, remaining_todos, ready_todos, current_todo,
                 diffVars, todoVars, laterVars>>

\* continue: the retry failed too, or no edit and the result says not completed
todo_not_completed ==
  /\ pc = "process"
  /\ pc' = "while"
  /\ UNCHANGED <<todo_plan, remaining_todos, completed_todos, ready_todos,
                 current_todo, diffVars, todoVars, laterVars>>

\* show_rejection(); return False
changes_rejected ==
  /\ pc = "process"
  /\ pc' = "rejected"
  /\ UNCHANGED <<todo_plan, remaining_todos, completed_todos, ready_todos,
                 current_todo, diffVars, todoVars, laterVars>>

\* except Exception as e: show_error(str(e)); return False
exception_raised ==
  /\ pc = "process"
  /\ pc' = "error"
  /\ UNCHANGED <<todo_plan, remaining_todos, completed_todos, ready_todos,
                 current_todo, diffVars, todoVars, laterVars>>

\* the loop ends: return True
loop_ended ==
  /\ pc = "while"
  /\ remaining_todos = <<>>
  /\ pc' = "done"
  /\ UNCHANGED <<todo_plan, remaining_todos, completed_todos, ready_todos,
                 current_todo, diffVars, todoVars, laterVars>>

InitLoop ==
  /\ fs = [n \in Nodes |-> Absent]
  /\ op = "none"
  /\ edits = <<>>
  /\ results = <<>>
  /\ before = fs
  /\ previews = <<>>
  /\ NewTodoManager
  /\ NewRequest
  /\ NoRequestBody
  /\ NoCompletion
  /\ NoResponse
  /\ NoCoercion
  /\ NoLoading
  /\ auto_accept = FALSE

NextLoop ==
  \/ \E plan \in AgentPlans : generate_todo_plan(plan)
  \/ find_ready_todos
  \/ escape_valve
  \/ take_current_todo
  \/ todo_completed
  \/ todo_not_completed
  \/ changes_rejected
  \/ exception_raised
  \/ loop_ended

SpecLoop == InitLoop /\ [][NextLoop]_vars

\* The request runs in one thread of control, which takes its next step
\* whenever it has one: the agent answers, the user answers.
SpecLoopFair ==
  /\ SpecLoop
  /\ WF_vars(pc = "plan" /\ \E plan \in AgentPlans : generate_todo_plan(plan))
  /\ WF_vars(find_ready_todos \/ escape_valve \/ take_current_todo \/ loop_ended)
  /\ WF_vars(todo_completed \/ todo_not_completed \/ changes_rejected
               \/ exception_raised)

----------------------------------------------------------------------------
(* Properties of the execution loop *)

\* every id the task depends on is the id of a task recorded as completed
DependenciesCompleted(todo, completed) ==
  \A d \in Ids :
    (\E k \in 1..Len(todo.dependencies) : todo.dependencies[k] = d)
      => \E i \in 1..Len(completed) : completed[i].id = d

\* the task of the plan that comes first among those still remaining
FirstRemaining(plan, remaining) ==
  plan[SetMin({i \in 1..Len(plan) : InSeq(plan[i], remaining)})]

\* C20: the escape valve fires only when tasks remain and none of them has
\* all its dependencies completed, and the task then started is the first
\* remaining task in the order of the plan; and whenever some remaining
\* task has all its dependencies completed, the task started has all its
\* dependencies completed.
C20_EscapeValveOnlyWhenStuck ==
  [][/\ pc' = "escaped" =>
          /\ remaining_todos # <<>>
          /\ \A i \in 1..Len(remaining_todos) :
               ~DependenciesCompleted(remaining_todos[i], completed_todos)
     /\ (pc = "escaped" /\ pc' = "process") =>
          current_todo' = <<FirstRemaining(todo_plan, remaining_todos)>>
     /\ (pc' = "process" /\
         \E i \in 1..Len(remaining_todos) :
           DependenciesCompleted(remaining_todos[i], completed_todos)) =>
          DependenciesCompleted(current_todo'[1], completed_todos)]_vars

\* the escape valve started the second task of the plan: the first was
\* taken before it and is not completed, and the second depends on a task
\* that is not completed
C20_Witness ==
  /\ pc = "process"
  /\ Len(todo_plan) = 2
  /\ current_todo = <<todo_plan[2]>>
  /\ completed_todos = <<>>
  /\ ~DependenciesCompleted(current_todo[1], completed_todos)

\* C21: in every iteration in which some remaining task has all its
\* dependencies completed, the task taken up is the one get_next_todo's
\* rule selects among them: the one with the smallest (priority rank, id).
C21_LoopTakesNextByPriority ==
  [][(pc' = "process" /\ pc # "process") =>
       \A i \in 1..Len(remaining_todos) :
         DependenciesCompleted(remaining_todos[i], completed_todos) =>
           KeyNotGreater(current_todo'[1], remaining_todos[i])]_vars

----------------------------------------------------------------------------
(* The body of the loop: AIAgentOrchestrator.process_user_request, from    *)
(* agent.process_todo to the bookkeeping after apply_edits, and the prompt *)
(* loop of run_interactive_session around it.  The plan, the ready list    *)
(* and the choice of the current todo are the actions of the third part.   *)
(* The calls of the DiffProcessor are recorded as in the first part (op,   *)
(* edits, results, before, previews).                                      *)

\* The edits an answer of the agent carries: a create of the target and a
\* patch of it
CreateA == FileEdit("a.txt", FALSE, <<>>, <<"a">>)
PatchAB == FileEdit("a.txt", FALSE, <<"a">>, <<"b">>)

\* todo_result.edits: none, one edit, or two of which the second cannot
\* apply once the first has
EditBatches == {<<>>, <<CreateA>>, <<PatchAB>>, <<PatchAB, PatchAB>>}

\* The TodoResult values process_todo returns
TodoResults == [edits : EditBatches, completed : BOOLEAN]

\* The plans of the requests followed here: every priority is medium, the
\* loop body never reads it
RequestPlans ==
  {plan \in AgentPlans : \A i \in 1..Len(plan) : plan[i].priority = "medium"}

\* What the user answers to ui.confirm_changes
Choices == {"yes", "yes_always", "no"}

\* sum(1 for result in results if result.success) == len(results)
all_successful(rs) == \A i \in 1..Len(rs) : rs[i].success

outsideRequest == <<todoVars, clientVars, parseVars, coerceVars, uiVars>>

\* todo_result = await self.agent.process_todo(current_todo, ...)
process_todo(result) ==
  /\ pc = "process"
  /\ todo_result' = result
  /\ calls' = 1
  /\ confirmed' = FALSE
  /\ pc' = IF result.edits # <<>> THEN "preview" ELSE "no_edits"
  /\ UNCHANGED <<todo_plan, remaining_todos, completed_todos, ready_todos,
                 current_todo, auto_accept, should_apply, all_edits, errors,
                 raised, diffVars, incomplete, outsideRequest>>

\* a todo without edits counts as completed whatever the result says
no_edits_always_completed ==
  /\ pc = "no_edits"
  /\ completed_todos' = Append(completed_todos, current_todo[1])
  /\ incomplete' =
       IF todo_result.completed THEN incomplete
       ELSE incomplete \cup {current_todo[1].id}
  /\ pc' = "while"
  /\ UNCHANGED <<todo_plan, remaining_todos, ready_todos, current_todo,
                 requestVars, diffVars, outsideRequest>>

\* else: (no edits) if todo_result.completed: completed_todos.append(...)
no_edits ==
  /\ pc = "no_edits"
  /\ completed_todos' =
       IF todo_result.completed THEN Append(completed_todos, current_todo[1])
       ELSE completed_todos
  /\ incomplete' =
       IF todo_result.completed THEN incomplete
       ELSE incomplete \cup {current_todo[1].id}
  /\ pc' = "while"
  /\ UNCHANGED <<todo_plan, remaining_todos, ready_todos, current_todo,
                 requestVars, diffVars, outsideRequest>>

\* diff_previews = self.diff_processor.preview_edits(edits)
show_diffs ==
  /\ pc = "preview"
  /\ op' = "preview_edits"
  /\ edits' = todo_result.edits
  /\ previews' = preview_edits(fs, todo_result.edits)
  /\ results' = <<>>
  /\ before' = fs
  /\ pc' = "confirm"
  /\ UNCHANGED <<fs, todo_plan, remaining_todos, completed_todos, ready_todos,
                 current_todo, requestVars, incomplete, outsideRequest>>

\* should_apply, auto_accept_enabled = self.ui.confirm_changes(auto_accept);
\* the setting answers for the user when it is on; "yes_always" turns it on.
\* A refusal ends the request: show_rejection(); return False
confirm_changes(choice) ==
  /\ pc = "confirm"
  /\ should_apply' = (auto_accept \/ choice # "no")
  /\ auto_accept' = (auto_accept \/ choice = "yes_always")
  /\ confirmed' = should_apply'
  /\ pc' = IF should_apply' THEN "apply" ELSE "rejected"
  /\ UNCHANGED <<todo_plan, remaining_todos, completed_todos, ready_todos,
                 current_todo, todo_result, all_edits, calls, errors, raised,
                 diffVars, incomplete, outsideRequest>>

\* results = self.diff_processor.apply_edits(edits); all_edits.extend(edits)
\* and completed_todos.append(current_todo) when every result is a success,
\* show_error and the retry otherwise
apply_confirmed ==
  /\ pc = "apply"
  /\ LET r == apply_edits(fs, todo_result.edits)
     IN  /\ op' = "apply_edits"
         /\ edits' = todo_result.edits
         /\ results' = r.results
         /\ fs' = r.fs
         /\ before' = fs
         /\ IF all_successful(r.results)
            THEN /\ all_edits' = all_edits \o todo_result.edits
                 /\ completed_todos' = Append(completed_todos, current_todo[1])
                 /\ pc' = "while"
                 /\ UNCHANGED errors
            ELSE /\ errors' = errors + 1
                 /\ pc' = "retry"
                 /\ UNCHANGED <<all_edits, completed_todos>>
  /\ UNCHANGED <<previews, todo_plan, remaining_todos, ready_todos,
                 current_todo, todo_result, auto_accept, should_apply, calls,
                 raised, confirmed, incomplete, outsideRequest>>

\* the retry goes round once more instead of giving the todo up
retry_again(result) ==
  /\ pc = "retry"
  /\ todo_result' = result
  /\ calls' = calls + 1
  /\ confirmed' = FALSE
  /\ pc' = IF result.edits # <<>> THEN "retry_apply" ELSE "retry"
  /\ UNCHANGED <<todo_plan, remaining_todos, completed_todos, ready_todos,
                 current_todo, auto_accept, should_apply, all_edits, errors,
                 raised, diffVars, incomplete, outsideRequest>>

\* retry_result = await self.agent.process_todo(current_todo, ... error
\* context ...); without edits: "No retry edits generated, skipping"
retry_process_todo(result) ==
  /\ pc = "retry"
  /\ todo_result' = result
  /\ calls' = calls + 1
  /\ confirmed' = FALSE
  /\ pc' = IF result.edits # <<>> THEN "retry_apply" ELSE "while"
  /\ UNCHANGED <<todo_plan, remaining_todos, completed_todos, ready_todos,
                 current_todo, auto_accept, should_apply, all_edits, errors,
                 raised, diffVars, incomplete, outsideRequest>>

\* retry_results = self.diff_processor.apply_edits(retry_edits); the todo is
\* completed when every result is a success and skipped otherwise
apply_retry ==
  /\ pc = "retry_apply"
  /\ LET r == apply_edits(fs, todo_result.edits)
     IN  /\ op' = "apply_edits"
         /\ edits' = todo_result.edits
         /\ results' = r.results
         /\ fs' = r.fs
         /\ before' = fs
         /\ IF all_successful(r.results)
            THEN /\ all_edits' = all_edits \o todo_result.edits
                 /\ completed_todos' = Append(completed_todos, current_todo[1])
            ELSE UNCHANGED <<all_edits, completed_todos>>
  /\ pc' = "while"
  /\ UNCHANGED <<previews, todo_plan, remaining_todos, ready_todos,
                 current_todo, todo_result, auto_accept, should_apply, calls,
                 errors, raised, confirmed, incomplete, outsideRequest>>

\* except Exception as retry_error: show_error(...); continue
retry_raises ==
  /\ pc \in {"retry", "retry_apply"}
  /\ raised' = raised + 1
  /\ errors' = errors + 1
  /\ pc' = "while"
  /\ UNCHANGED <<todo_plan, remaining_todos, completed_todos, ready_todos,
                 current_todo, todo_result, auto_accept, should_apply,
                 all_edits, calls, confirmed, diffVars, incomplete, outsideRequest>>

\* the exception is reported and the loop goes on to the next todo
request_raises_skips_todo ==
  /\ pc \in {"process", "preview", "confirm", "apply"}
  /\ raised' = raised + 1
  /\ errors' = errors + 1
  /\ pc' = "while"
  /\ UNCHANGED <<todo_plan, remaining_todos, completed_todos, ready_todos,
                 current_todo, todo_result, auto_accept, should_apply,
                 all_edits, calls, confirmed, diffVars, incomplete, outsideRequest>>

\* except Exception as e: self.ui.show_error(str(e)); return False, for an
\* exception of process_todo, execute_command, preview_edits,
\* confirm_changes, save_config or apply_edits
request_raises ==
  /\ pc \in {"process", "preview", "confirm", "apply"}
  /\ raised' = raised + 1
  /\ errors' = errors + 1
  /\ pc' = "error"
  /\ UNCHANGED <<todo_plan, remaining_todos, completed_todos, ready_todos,
                 current_todo, todo_result, auto_accept, should_apply,
                 all_edits, calls, confirmed, diffVars, incomplete, outsideRequest>>

\* process_user_request has returned
Returned == pc \in {"done", "rejected", "error"}

\* run_interactive_session: while True: user_request = get_user_request();
\* await self.process_user_request(user_request).  The project directory
\* and the setting stay; the locals of the request are new.
get_user_request ==
  /\ Returned
  /\ \A n \in Nodes : Len(fs[n].text) <= MaxLen
  /\ pc' = "plan"
  /\ todo_plan' = <<>>
  /\ remaining_todos' = <<>>
  /\ completed_todos' = <<>>
  /\ ready_todos' = <<>>
  /\ current_todo' = <<>>
  /\ todo_result' = NoResult
  /\ should_apply' = FALSE
  /\ all_edits' = <<>>
  /\ calls' = 0
  /\ errors' = 0
  /\ raised' = 0
  /\ confirmed' = FALSE
  /\ op' = "none"
  /\ edits' = <<>>
  /\ results' = <<>>
  /\ previews' = <<>>
  /\ before' = fs
  /\ incomplete' = {}
  /\ UNCHANGED <<fs, auto_accept, outsideRequest>>

InitRequest ==
  /\ fs = [n \in Nodes |-> Absent]
  /\ op = "none"
  /\ edits = <<>>
  /\ results = <<>>
  /\ before = fs
  /\ previews = <<>>
  /\ NewTodoManager
  /\ NewRequest
  /\ NoRequestBody
  /\ NoCompletion
  /\ NoResponse
  /\ NoCoercion
  /\ NoLoading
  /\ auto_accept \in BOOLEAN

NextRequest ==
  \/ \E plan \in RequestPlans : generate_todo_plan(plan)
  \/ find_ready_todos
  \/ escape_valve
  \/ take_current_todo
  \/ \E result \in TodoResults : process_todo(result)
  \/ no_edits
  \/ show_diffs
  \/ \E choice \in Choices : confirm_changes(choice)
  \/ apply_confirmed
  \/ \E result \in TodoResults : retry_process_todo(result)
  \/ apply_retry
  \/ retry_raises
  \/ request_raises
  \/ loop_ended
  \/ get_user_request

SpecRequest == InitRequest /\ [][NextRequest]_vars

----------------------------------------------------------------------------
(* Properties of the body of the loop *)

\* the todo is recorded as completed
RecordedCompleted(todo, completed) ==
  \E i \in 1..Len(completed) : completed[i] = todo

\* the processing of the current todo ends with an answer without edits
EndsWithoutEdits == pc = "no_edits" /\ pc' # "no_edits"

\* C22: a todo whose processing produced no edits is recorded as completed
\* if and only if the result says completed; one whose result says not
\* completed is not among the completed todos and satisfies no dependency
\* for the rest of the request.
C22_ZeroEditCompletion ==
  /\ [][EndsWithoutEdits =>
         /\ todo_result.edits = <<>>
         /\ RecordedCompleted(current_todo[1], completed_todos')
               <=> todo_result.completed]_vars
  /\ [](\A id \in incomplete :
         /\ \A i \in 1..Len(completed_todos) : completed_todos[i].id # id
         /\ \A i \in 1..Len(remaining_todos) :
              (\E k \in 1..Len(remaining_todos[i].dependencies) :
                 remaining_todos[i].dependencies[k] = id)
                => ~DependenciesCompleted(remaining_todos[i], completed_todos))

\* a todo ended without edits and not completed, and a todo that depends
\* on it is still to be taken up
C22_Witness ==
  /\ pc = "while"
  /\ todo_result = [edits |-> <<>>, completed |-> FALSE]
  /\ \E id \in incomplete : \E i \in 1..Len(remaining_todos) :
       remaining_todos[i].dependencies = <<id>>

\* the step is a call of apply_edits that returned
AppliesEdits ==
  /\ pc \in {"apply", "retry_apply"}
  /\ pc' # pc
  /\ raised' = raised

\* the edits of the list whose DiffResult is a success, in their order
RECURSIVE SuccessfulEdits(_, _)
SuccessfulEdits(es, rs) ==
  IF es = <<>> \/ rs = <<>> THEN <<>>
  ELSE (IF rs[1].success THEN <<es[1]>> ELSE <<>>)
         \o SuccessfulEdits(Tail(es), Tail(rs))

\* C23: during a request the list of applied edits grows by exactly the
\* edits whose apply returned success, the successful edits of a list whose
\* later edit failed included, and by nothing else.
C23_AppliedEditsExact ==
  [][pc' # "plan" =>
       all_edits' =
         all_edits \o (IF AppliesEdits THEN SuccessfulEdits(edits', results')
                       ELSE <<>>)]_vars

\* C24: apply_edits is called on edits only after, since the agent produced
\* them, they were checked against the files (the preview of the loop) and
\* accepted, by the auto-accept setting or by the user; the edits of the
\* retry included.
C24_AppliedOnlyAfterConfirmation ==
  [][AppliesEdits =>
       /\ confirmed
       /\ op = "preview_edits"
       /\ edits = edits']_vars

Retrying == pc \in {"retry", "retry_apply"}

\* the retry ends here without having applied every edit it asked for: it
\* raised, it brought no edits, or one of its edits failed
RetryFails ==
  /\ Retrying
  /\ \/ raised' # raised
     \/ pc = "retry" /\ todo_result'.edits = <<>>
     \/ AppliesEdits /\ \E i \in 1..Len(results') : ~results'[i].success

\* C25: process_todo is called at most twice for a todo, and when the retry
\* fails, brings no edits or raises, the todo is left uncompleted and the
\* loop goes on to the remaining todos with no further retry.
C25_RetryAtMostOnce ==
  /\ [](calls <= 2)
  /\ [][RetryFails =>
         /\ pc' = "while"
         /\ completed_todos' = completed_todos
         /\ calls' <= 2]_vars

\* the retry of a todo has failed, the todo is not completed and the loop
\* has another todo to go on with
C25_Witness ==
  /\ pc = "while"
  /\ calls = 2
  /\ ~RecordedCompleted(current_todo[1], completed_todos)
  /\ remaining_todos # <<>>

\* ui.confirm_changes returns and the answer is not to apply the edits
Declines ==
  /\ pc = "confirm"
  /\ pc' # "confirm"
  /\ raised' = raised
  /\ ~should_apply'

\* C26: when the user declines the edits of a todo nothing is written for
\* them, the todo is recorded as completed and the loop goes on with the
\* remaining todos.
C26_DeclinedEditsResolved ==
  [][Declines =>
       /\ fs' = fs
       /\ RecordedCompleted(current_todo[1], completed_todos')
       /\ pc' = "while"]_vars

\* the step raises an exception while a todo is being processed
Raises == raised' = raised + 1

\* the step reports one error
ReportsOneError == errors' = errors + 1

\* C27 as stated: an exception raised anywhere while the todos of a request
\* are processed ends the request: one error is reported,
\* process_user_request returns False, no further todo of the plan is
\* processed and the prompt loop takes the next request.
C27_AnyExceptionAbortsRequest ==
  /\ [][Raises => ReportsOneError /\ pc' = "error"]_vars
  /\ [][pc = "error" => pc' = "plan"]_vars
  /\ [](pc = "error" => ENABLED get_user_request)

\* C27, amended: that holds of every exception but those of the retry,
\* which the retry catches: it reports one error too, leaves the todo
\* uncompleted and goes on with the loop.
C27_UncaughtExceptionAbortsRequest ==
  /\ [][Raises /\ ~Retrying => ReportsOneError /\ pc' = "error"]_vars
  /\ [][Raises /\ Retrying => ReportsOneError /\ pc' = "while"]_vars
  /\ [][pc = "error" => pc' = "plan"]_vars
  /\ [](pc = "error" => ENABLED get_user_request)

\* an exception outside the retry has ended a request that had a todo left
C27_Witness ==
  /\ pc = "error"
  /\ raised = 1
  /\ errors = 1
  /\ remaining_todos # <<>>

----------------------------------------------------------------------------
(* One completion call: LLMClient.execute (tools/llm_client.py) and        *)
(* Agent._call_llm_with_retry (agent.py).  Both run the same loop; the     *)
(* client takes an empty text for a failure and returns a ToolResult, the  *)
(* agent returns the text as it is and raises the last error.              *)

MaxRetries == 3    \* greatest max_retries a call is made with

\* max_retries: int = 3
DEFAULT_MAX_RETRIES == 3

Clients == {"LLMClient", "Agent"}

\* What the completion API does on one attempt: it returns a text, which may
\* be empty, or raises
ApiErrors == {"timeout", "rate limit"}
ApiOutcomes ==
  {[raises |-> FALSE, value |-> c] : c \in {"text", ""}}
    \cup {[raises |-> TRUE, value |-> e] : e \in ApiErrors}

EmptyResponse == "Empty response from LLM API"

\* the attempt ends in the except clause
attempt_fails(c, o) == o.raises \/ (c = "LLMClient" /\ o.value = "")

\* the exception the except clause catches
attempt_error(o) == IF o.raises THEN o.value ELSE EmptyResponse

\* a backoff that starts at two seconds
wait_time_from_two(k) == 2^(k + 1)

\* wait_time = 2**attempt
wait_time(k) == 2^k

outsideClient == <<diffVars, todoVars, loopVars, requestVars, incomplete,
                   parseVars, coerceVars, uiVars>>

\* the call starts: last_error = None; self._notify_ui("start_loading");
\* for attempt in range(max_retries):
execute(c, m) ==
  /\ llm_pc = "idle"
  /\ client' = c
  /\ max_retries' = m
  /\ attempt' = 0
  /\ last_error' = "None"
  /\ waits' = <<>>
  /\ history' = <<>>
  /\ completion' = <<>>
  /\ notified' = <<"start_loading">>
  /\ llm_pc' = "attempt"
  /\ UNCHANGED outsideClient

\* if attempt > 0: show_llm_retry, before the request is sent
retry_events == IF attempt > 0 THEN <<"show_llm_retry">> ELSE <<>>

\* if attempt > 0: show_llm_retry_success, once create has returned
success_events(o) ==
  IF attempt > 0 /\ ~o.raises THEN <<"show_llm_retry_success">> ELSE <<>>

\* one pass of the loop body up to its return or its sleep; a return or a
\* raise goes through the finally clause, which sends stop_loading
create(o) ==
  /\ llm_pc = "attempt"
  /\ history' = Append(history, [failed |-> attempt_fails(client, o),
                                 error |-> attempt_error(o)])
  /\ IF ~attempt_fails(client, o)
     THEN /\ completion' = [how |-> "return", success |-> TRUE, value |-> o.value]
          /\ notified' = notified \o retry_events \o success_events(o)
                            \o <<"stop_loading">>
          /\ llm_pc' = "returned"
          /\ UNCHANGED <<last_error, waits>>
     ELSE /\ last_error' = attempt_error(o)
          /\ IF attempt < max_retries - 1
             THEN /\ waits' = Append(waits, wait_time(attempt))
                  /\ notified' = notified \o retry_events \o success_events(o)
                  /\ llm_pc' = "sleep"
                  /\ UNCHANGED completion
             ELSE /\ completion' =
                       [how |-> IF client = "Agent" THEN "raise" ELSE "return",
                        success |-> FALSE,
                        value |-> attempt_error(o)]
                  /\ notified' = notified \o retry_events \o success_events(o)
                                    \o <<"show_llm_retry_failed", "stop_loading">>
                  /\ llm_pc' = "returned"
                  /\ UNCHANGED waits
  /\ UNCHANGED <<client, max_retries, attempt, outsideClient>>

\* await asyncio.sleep(wait_time) is over: the next pass of the loop
sleep_over ==
  /\ llm_pc = "sleep"
  /\ attempt' = attempt + 1
  /\ llm_pc' = "attempt"
  /\ UNCHANGED <<client, max_retries, last_error, waits, history, completion,
                 notified, outsideClient>>

\* a call whose exception leaves it without passing the finally clause
interrupted_without_finally ==
  /\ llm_pc \in {"attempt", "sleep"}
  /\ completion' = [how |-> "raise", success |-> FALSE, value |-> "Cancelled"]
  /\ llm_pc' = "interrupted"
  /\ UNCHANGED <<client, max_retries, attempt, last_error, waits, history,
                 notified, outsideClient>>

\* an exception that except Exception does not catch (the task is
\* cancelled during the sleep, the user interrupts the request) leaves the
\* call through the finally clause
interrupted ==
  /\ llm_pc \in {"attempt", "sleep"}
  /\ completion' = [how |-> "raise", success |-> FALSE, value |-> "Cancelled"]
  /\ notified' = Append(notified, "stop_loading")
  /\ llm_pc' = "interrupted"
  /\ UNCHANGED <<client, max_retries, attempt, last_error, waits, history,
                 outsideClient>>

InitClient ==
  /\ fs = [n \in Nodes |-> Absent]
  /\ op = "none"
  /\ edits = <<>>
  /\ results = <<>>
  /\ before = fs
  /\ previews = <<>>
  /\ NewTodoManager
  /\ NewRequest
  /\ NoRequestBody
  /\ auto_accept = FALSE
  /\ NoCompletion
  /\ NoResponse
  /\ NoCoercion
  /\ NoLoading

NextClient ==
  \/ \E c \in Clients, m \in 1..MaxRetries : execute(c, m)
  \/ \E o \in ApiOutcomes : create(o)
  \/ sleep_over
  \/ interrupted

SpecClient == InitClient /\ [][NextClient]_vars

----------------------------------------------------------------------------
(* Properties of the completion call *)

RECURSIVE TwoToThe(_)
TwoToThe(k) == IF k = 0 THEN 1 ELSE 2 * TwoToThe(k - 1)

Attempts == Len(history)

RECURSIVE Count(_, _)
Count(events, e) ==
  IF events = <<>> THEN 0
  ELSE (IF Head(events) = e THEN 1 ELSE 0) + Count(Tail(events), e)

Exited == llm_pc \in {"returned", "interrupted"}

\* C39: a completion call sends start_loading once, before its first
\* attempt, and stop_loading once, after its last attempt and as its last
\* event, however it ends: with a text on any attempt, with the error of the
\* last attempt, or with an exception that escapes it.
C39_LoadingBracketsTheCall ==
  /\ llm_pc = "idle" => notified = <<>> /\ history = <<>>
  /\ llm_pc # "idle" =>
       /\ notified[1] = "start_loading"
       /\ Count(notified, "start_loading") = 1
  /\ llm_pc \in {"attempt", "sleep"} => Count(notified, "stop_loading") = 0
  /\ Exited =>
       /\ Count(notified, "stop_loading") = 1
       /\ notified[Len(notified)] = "stop_loading"
       /\ ~ENABLED (\E o \in ApiOutcomes : create(o))

\* a call of the agent that slept after a failed attempt and was left by an
\* exception during the sleep
C39_Witness ==
  /\ llm_pc = "interrupted"
  /\ client = "Agent"
  /\ Attempts > 0
  /\ Len(waits) = Attempts
  /\ completion.how = "raise"

----------------------------------------------------------------------------
(* The processing of the model's answer for a todo: TodoProcessor.execute  *)
(* (tools/todo_processor.py) with parse_llm_json (utils.py), and           *)
(* Agent.process_todo (agent.py) with json.loads.  An answer is a sequence *)
(* of tokens: a markdown fence, the word json, a brace, a space or other   *)
(* text.  The only JSON documents such an answer can hold are empty        *)
(* objects.                                                                *)

MaxTokens == 4    \* longest answer

\* a line of three backquotes
Fence == "fence"
Tokens == {Fence, "json", "{", "}", " ", "x"}
Responses == UNION {[1..k -> Tokens] : k \in 0..MaxTokens}

\* json.loads(text) does not raise: the text is an object without members
json_loads_ok(text) ==
  LET t == Strip(text)
  IN  /\ Len(t) >= 2
      /\ t[1] = "{"
      /\ t[Len(t)] = "}"
      /\ \A i \in 2..(Len(t) - 1) : t[i] = " "

\* the first index from i on that holds no space, Len(text) + 1 if none
skip_spaces(text, i) ==
  SetMin({k \in i..(Len(text) + 1) : k = Len(text) + 1 \/ text[k] # " "})

\* where group 1 of json_block_pattern, fence (?:json)?\s*(\{.*?\})\s* fence,
\* starts when the pattern matches at i
block_open(text, i) ==
  skip_spaces(text, IF i + 1 <= Len(text) /\ text[i + 1] = "json"
                    THEN i + 2 ELSE i + 1)

\* the indices group 1 can end at: a closing brace followed by spaces and a
\* fence
block_closes(text, i) ==
  {k \in (block_open(text, i) + 1)..Len(text) :
     /\ text[k] = "}"
     /\ skip_spaces(text, k + 1) <= Len(text)
     /\ text[skip_spaces(text, k + 1)] = Fence}

block_matches(text, i) ==
  /\ text[i] = Fence
  /\ block_open(text, i) <= Len(text)
  /\ text[block_open(text, i)] = "{"
  /\ block_closes(text, i) # {}

\* re.search(json_block_pattern, response_text, re.DOTALL).group(1), the
\* empty sequence when there is no match
json_block(text) ==
  LET starts == {i \in 1..Len(text) : block_matches(text, i)}
  IN  IF starts = {} THEN <<>>
      ELSE LET i == SetMin(starts)
           IN  SubSeq(text, block_open(text, i), SetMin(block_closes(text, i)))

\* where \{(?:[^{}]|(?:\{[^{}]*\}))*\} ends when its opening brace is just
\* before k, 0 when it does not match; inner: inside a nested pair of braces
RECURSIVE object_end(_, _, _)
object_end(text, k, inner) ==
  IF k > Len(text) THEN 0
  ELSE IF text[k] = "{"
       THEN (IF inner THEN 0 ELSE object_end(text, k + 1, TRUE))
  ELSE IF text[k] = "}"
       THEN (IF inner THEN object_end(text, k + 1, FALSE) ELSE k)
  ELSE object_end(text, k + 1, inner)

\* re.findall(json_pattern, response_text, re.DOTALL), from index p on
RECURSIVE json_matches(_, _)
json_matches(text, p) ==
  IF p > Len(text) THEN <<>>
  ELSE IF text[p] = "{" /\ object_end(text, p + 1, FALSE) # 0
       THEN <<SubSeq(text, p, object_end(text, p + 1, FALSE))>>
              \o json_matches(text, object_end(text, p + 1, FALSE) + 1)
  ELSE json_matches(text, p + 1)

\* the "original cleaning logic": strip, cut a leading fence with or
\* without json and then a trailing fence, strip
drop_last_fence(text) ==
  IF text # <<>> /\ text[Len(text)] = Fence
  THEN SubSeq(text, 1, Len(text) - 1) ELSE text

clean_fences(text) ==
  LET t == Strip(text)
  IN  Strip(IF Len(t) >= 2 /\ t[1] = Fence /\ t[2] = "json"
            THEN drop_last_fence(SubSeq(t, 3, Len(t)))
            ELSE IF Len(t) >= 1 /\ t[1] = Fence
            THEN drop_last_fence(SubSeq(t, 2, Len(t)))
            ELSE t)

\* What a call can come to: it returns a value, it raises an exception that
\* "except Exception" catches, or it ends the process (SystemExit)
Returns(v) == [kind |-> "return", value |-> v]
RaisesError(e) == [kind |-> "raise", value |-> e]
Exits == [kind |-> "exit", value |-> "SystemExit"]

EmptyObject == "{}"

\* an invalid text raises json.JSONDecodeError instead of leaving
loads_or_raise(text) ==
  IF json_loads_ok(text) THEN Returns(EmptyObject)
  ELSE RaisesError("JSONDecodeError")

\* try: return json.loads(cleaned_text)
\* except json.JSONDecodeError: print(...); exit(0)
loads_or_exit(text) ==
  IF json_loads_ok(text) THEN Returns(EmptyObject) ELSE Exits

\* utils.parse_llm_json
parse_llm_json(text) ==
  IF Strip(text) = <<>> THEN RaisesError("JSONDecodeError")
  ELSE IF json_block(text) # <<>> THEN loads_or_exit(json_block(text))
  ELSE LET found == json_matches(text, 1)
       IN  IF found # <<>>
           THEN (IF \E k \in 1..Len(found) : json_loads_ok(found[k])
                 THEN Returns(EmptyObject)
                 ELSE loads_or_exit(found[Len(found)]))
           ELSE IF clean_fences(text) = <<>>
                THEN RaisesError("JSONDecodeError")
                ELSE loads_or_exit(clean_fences(text))

\* TodoResult(**cleaned) of an object without members: every field takes
\* its default
DefaultResult ==
  [kind |-> "result", edits |-> <<>>, completed |-> FALSE, next_steps |-> ""]

\* TodoResult(thinking=f"JSON decode error: {e}", edits=[], completed=False,
\* next_steps="Fix JSON formatting and retry")
DecodeErrorResult ==
  [kind |-> "result", edits |-> <<>>, completed |-> FALSE,
   next_steps |-> "Fix JSON formatting and retry"]

Terminated == [kind |-> "exit"]

\* what the caller of the processing gets for a parse of the answer
result_of(parsed) ==
  CASE parsed.kind = "return" -> DefaultResult
    [] parsed.kind = "raise" -> DecodeErrorResult
    [] parsed.kind = "exit" -> Terminated

outsideAnswer == <<diffVars, todoVars, loopVars, requestVars, incomplete,
                   clientVars, coerceVars, uiVars>>

\* TodoProcessor.execute on an answer the client returned with success, which
\* is never empty or blank
TodoProcessor_execute(text) ==
  /\ outcome = <<>>
  /\ Strip(text) # <<>>
  /\ response' = text
  /\ outcome' = [by |-> "TodoProcessor"] @@ result_of(parse_llm_json(text))
  /\ UNCHANGED outsideAnswer

\* Agent.process_todo from the answer of _call_llm_with_retry on
Agent_process_todo(text) ==
  /\ outcome = <<>>
  /\ response' = text
  /\ outcome' = [by |-> "Agent"] @@ result_of(loads_or_raise(text))
  /\ UNCHANGED outsideAnswer

\* the caller has its result and processes the next answer
next_answer ==
  /\ outcome # <<>>
  /\ outcome.kind # "exit"
  /\ response' = <<>>
  /\ outcome' = <<>>
  /\ UNCHANGED outsideAnswer

InitAnswer == InitClient

NextAnswer ==
  \/ \E text \in Responses : TodoProcessor_execute(text)
  \/ \E text \in Responses : Agent_process_todo(text)
  \/ next_answer

SpecAnswer == InitAnswer /\ [][NextAnswer]_vars

----------------------------------------------------------------------------
(* Properties of the processing of an answer *)

\* no part of the answer is a JSON document: it holds no pair of braces
\* with nothing but spaces between them
HoldsNoJson(text) ==
  ~\E i, j \in 1..Len(text) :
     /\ i < j
     /\ text[i] = "{"
     /\ text[j] = "}"
     /\ \A k \in (i + 1)..(j - 1) : text[k] = " "

\* C29: when the model's answer for a todo cannot be parsed as JSON, the
\* processing returns a result with no edits, completed = false and a
\* next_steps that is not empty; it does not raise and does not end the
\* process.
C29_UnparsableAnswerIsAResult ==
  (outcome # <<>> /\ HoldsNoJson(response)) =>
    /\ outcome.kind = "result"
    /\ outcome.edits = <<>>
    /\ ~outcome.completed
    /\ outcome.next_steps # ""

----------------------------------------------------------------------------
(* The coercion of the list fields of a parsed answer: TodoProcessor's     *)
(* _clean_commands, _clean_searches and _clean_edits, the same code inline *)
(* in Agent.process_todo, and the validators of TodoResult that run on     *)
(* what they return.  A Python value is a record of its type, the text     *)
(* str() gives for a str, an int or None, the keys and values of a dict    *)
(* and the items of a list.                                                *)

MaxItems == 2    \* longest list of a field

PyScalar(type, text) ==
  [type |-> type, text |-> text, dict |-> <<>>, items |-> <<>>]
PyNone == PyScalar("NoneType", "None")
PyInt == PyScalar("int", "5")
PyStr(s) == PyScalar("str", s)
PyDict(f) == [type |-> "dict", text |-> "", dict |-> f, items |-> <<>>]
PyList(items) == [type |-> "list", text |-> "", dict |-> <<>>, items |-> items]

\* str(v) of a str, an int or None
py_str(v) == v.text

\* the keys the entries of each list field are read for
Fields == {"commands", "searches", "edits"}
field_keys(field) ==
  CASE field = "commands" -> {"command", "description"}
    [] field = "searches" -> {"query", "command", "description"}
    [] field = "edits" ->
         {"file_path", "old_content", "new_content", "description"}

\* The values the model can put in a field: a dict with all of the keys, with
\* none, with the description only or with all but the description, each a
\* str (the description a str or a number), a bare str, a number or null as
\* entries of a list, or something that is no list
Scalars == {PyStr("v"), PyInt}
key_values(key) == IF key = "description" THEN Scalars ELSE {PyStr("v")}
KeySets(field) ==
  {field_keys(field), {}, {"description"}, field_keys(field) \ {"description"}}
DictEntries(field) ==
  {PyDict(f) :
     f \in UNION {{g \in [K -> Scalars] : \A k \in K : g[k] \in key_values(k)} :
                  K \in KeySets(field)}}
Entries(field) == DictEntries(field) \cup {PyStr("ls"), PyInt, PyNone}
FieldValues(field) ==
  {PyNone, PyInt, PyStr("ls"), PyDict(<<>>)}
    \cup {PyList(items) :
            items \in UNION {[1..k -> Entries(field)] : k \in 0..MaxItems}}

\* entry.get(key, "")
dict_get(entry, key) ==
  IF key \in DOMAIN entry.dict THEN entry.dict[key] ELSE PyStr("")

\* {"key": str(entry.get("key", "")), ...}
clean_entry(entry, keys) == [k \in keys |-> py_str(dict_get(entry, k))]

\* the loop that keeps the dicts of a list; with_strings: a bare str is kept
\* as a command
RECURSIVE clean_entries(_, _, _)
clean_entries(items, keys, with_strings) ==
  IF items = <<>> THEN <<>>
  ELSE (IF items[1].type = "dict" THEN <<clean_entry(items[1], keys)>>
        ELSE IF with_strings /\ items[1].type = "str"
        THEN <<[command |-> items[1].text,
                description |-> "Command execution"]>>
        ELSE <<>>)
         \o clean_entries(Tail(items), keys, with_strings)

\* TodoProcessor._clean_commands, and the same lines of Agent.process_todo
clean_commands(commands) ==
  IF commands.type # "list" THEN <<>>
  ELSE clean_entries(commands.items, field_keys("commands"), TRUE)

\* TodoProcessor._clean_searches, and the same lines of Agent.process_todo
clean_searches(searches) ==
  IF searches.type # "list" THEN <<>>
  ELSE clean_entries(searches.items, field_keys("searches"), FALSE)

\* TodoProcessor._clean_edits, and the same lines of Agent.process_todo
clean_edits(es) ==
  IF es.type # "list" THEN <<>>
  ELSE clean_entries(es.items, field_keys("edits"), FALSE)

\* TodoResult.validate_commands, validate_searches and validate_edits on
\* the list of dicts the cleaning returned: each entry is built anew from
\* the keys of the field, a missing key with the empty string
validate_field(field, v) ==
  [i \in 1..Len(v) |->
     [k \in field_keys(field) |-> IF k \in DOMAIN v[i] THEN v[i][k] ELSE ""]]

clean_field(field, v) ==
  CASE field = "commands" -> clean_commands(v)
    [] field = "searches" -> clean_searches(v)
    [] field = "edits" -> clean_edits(v)

outsideCoerce == <<diffVars, todoVars, loopVars, requestVars, incomplete,
                   clientVars, parseVars, uiVars>>

\* The fields to coerce: who coerces, which field, and its value
RawFields ==
  UNION {{[by |-> c, field |-> field, value |-> v] :
            c \in {"TodoProcessor", "Agent"}, v \in FieldValues(field)} :
         field \in Fields}

\* cleaned_data = self._clean_todo_result(parsed); TodoResult(**cleaned_data)
\* cleaned holds the list the field has in the TodoResult
TodoProcessor_clean ==
  /\ raw.by = "TodoProcessor"
  /\ cleaned = <<>>
  /\ cleaned' = <<validate_field(raw.field, clean_field(raw.field, raw.value))>>
  /\ UNCHANGED <<raw, outsideCoerce>>

\* Agent.process_todo: cleaned_parsed[...] = ...; TodoResult(**cleaned_parsed)
Agent_clean ==
  /\ raw.by = "Agent"
  /\ cleaned = <<>>
  /\ cleaned' = <<validate_field(raw.field, clean_field(raw.field, raw.value))>>
  /\ UNCHANGED <<raw, outsideCoerce>>

InitCoerce ==
  /\ fs = [n \in Nodes |-> Absent]
  /\ op = "none"
  /\ edits = <<>>
  /\ results = <<>>
  /\ before = fs
  /\ previews = <<>>
  /\ NewTodoManager
  /\ NewRequest
  /\ NoRequestBody
  /\ auto_accept = FALSE
  /\ NoCompletion
  /\ NoResponse
  /\ raw \in RawFields
  /\ cleaned = <<>>
  /\ NoLoading

NextCoerce ==
  \/ TodoProcessor_clean
  \/ Agent_clean

SpecCoerce == InitCoerce /\ [][NextCoerce]_vars

----------------------------------------------------------------------------
(* Properties of the coercion *)

\* the entry of the result for a dict of the input: the text of every key
\* that is there, the empty string for every key that is missing
Defaulted(entry, keys) ==
  [k \in keys |->
     IF k \in DOMAIN entry.dict THEN entry.dict[k].text ELSE ""]

\* one entry for each dict of the list, in the order of the list
RECURSIVE OnePerDict(_, _)
OnePerDict(items, keys) ==
  IF items = <<>> THEN <<>>
  ELSE (IF items[1].type = "dict" THEN <<Defaulted(items[1], keys)>>
        ELSE <<>>) \o OnePerDict(Tail(items), keys)

\* C30: the coercion of a list field (commands, searches, edits) gives the
\* empty list for a value that is no list, and for a list one entry per
\* dict of the list, in the order of the list, every missing key with the
\* empty string; an entry that is no dict, a bare string included, is
\* dropped.
C30_CoercionKeepsDictsOnly ==
  cleaned # <<>> =>
    cleaned[1] =
      IF raw.value.type # "list" THEN <<>>
      ELSE OnePerDict(raw.value.items, field_keys(raw.field))

----------------------------------------------------------------------------
(* The loading indicator of src/aieng/ui.py (class TerminalUI):            *)
(* start_loading and stop_loading, called one after the other by the       *)
(* thread that runs the request, and the animation threads start_loading   *)
(* starts.  Every read and every write of a field of the TerminalUI is one *)
(* step, so the steps of the caller and of the animation threads           *)
(* interleave as the interpreter lets them.  A Live display is created,    *)
(* then started (it shows), then stopped (it is gone).                     *)

MaxThreads == 2    \* start_loading starts at most MaxThreads threads
MaxLives == 2      \* at most MaxLives Live displays are created

outsideLoading == <<diffVars, todoVars, loopVars, requestVars, incomplete,
                    clientVars, parseVars, coerceVars>>

SetPc(t, to) == [threads EXCEPT ![t] = to]
Ended(t) == threads[t] \in {"done", "crashed"}

\* start_loading while the indicator is active, without the early return
start_loading_again ==
  /\ ui_pc = "idle"
  /\ Len(threads) < MaxThreads
  /\ ui_call' = [op |-> "start_loading", was |-> loading_active]
  /\ loading_active' = TRUE
  /\ ui_pc' = "thread"
  /\ UNCHANGED <<loading_live, loading_task, lives, threads, outsideLoading>>

\* start_loading: if self.loading_active: return;
\* self._add_spacing(); self.loading_active = True
start_loading ==
  /\ ui_pc = "idle"
  /\ ui_call' = [op |-> "start_loading", was |-> loading_active]
  /\ IF loading_active
     THEN UNCHANGED <<loading_active, ui_pc>>
     ELSE /\ Len(threads) < MaxThreads
          /\ loading_active' = TRUE
          /\ ui_pc' = "thread"
  /\ UNCHANGED <<loading_live, loading_task, lives, threads, outsideLoading>>

\* self.loading_task = threading.Thread(target=animate_loading, daemon=True)
\* self.loading_task.start(), and start_loading returns
start_thread ==
  /\ ui_pc = "thread"
  /\ threads' = Append(threads, "while")
  /\ loading_task' = Len(threads) + 1
  /\ ui_pc' = "idle"
  /\ UNCHANGED <<loading_active, loading_live, lives, ui_call, outsideLoading>>

\* stop_loading: if not self.loading_active: return;
\* self.loading_active = False
stop_loading ==
  /\ ui_pc = "idle"
  /\ ui_call' = [op |-> "stop_loading", was |-> loading_active]
  /\ IF ~loading_active
     THEN UNCHANGED <<loading_active, ui_pc>>
     ELSE /\ loading_active' = FALSE
          /\ ui_pc' = "if_live"
  /\ UNCHANGED <<loading_live, loading_task, lives, threads, outsideLoading>>

\* if self.loading_live:
if_loading_live ==
  /\ ui_pc = "if_live"
  /\ ui_pc' = IF loading_live # NoLive THEN "live_stop" ELSE "if_task"
  /\ UNCHANGED <<loading_active, loading_live, loading_task, lives, threads,
                 ui_call, outsideLoading>>

\* self.loading_live.stop()
live_stop ==
  /\ ui_pc = "live_stop"
  /\ lives' = [lives EXCEPT ![loading_live] =
                 IF @ = "started" THEN "stopped" ELSE @]
  /\ ui_pc' = "live_none"
  /\ UNCHANGED <<loading_active, loading_live, loading_task, threads, ui_call,
                 outsideLoading>>

\* self.loading_live = None
live_none ==
  /\ ui_pc = "live_none"
  /\ loading_live' = NoLive
  /\ ui_pc' = "if_task"
  /\ UNCHANGED <<loading_active, loading_task, lives, threads, ui_call,
                 outsideLoading>>

\* if self.loading_task: self.loading_task.join(timeout=0.5);
\* self.loading_task = None, and stop_loading returns.  The join ends when
\* the thread has ended
join_ended ==
  /\ ui_pc = "if_task"
  /\ loading_task # NoThread => Ended(loading_task)
  /\ loading_task' = NoThread
  /\ ui_pc' = "idle"
  /\ UNCHANGED <<loading_active, loading_live, lives, threads, ui_call,
                 outsideLoading>>

\* or when the half second is over and the thread has not ended
join_timed_out ==
  /\ ui_pc = "if_task"
  /\ loading_task # NoThread
  /\ ~Ended(loading_task)
  /\ loading_task' = NoThread
  /\ ui_pc' = "idle"
  /\ UNCHANGED <<loading_active, loading_live, lives, threads, ui_call,
                 outsideLoading>>

\* animate_loading: while self.loading_active:
animate_while(t) ==
  /\ threads[t] = "while"
  /\ threads' = SetPc(t, IF loading_active THEN "if_live" ELSE "done")
  /\ UNCHANGED <<loading_active, loading_live, loading_task, lives, ui_pc,
                 ui_call, outsideLoading>>

\* if self.loading_live is None:
animate_if_live(t) ==
  /\ threads[t] = "if_live"
  /\ threads' = SetPc(t, IF loading_live = NoLive THEN "new" ELSE "update")
  /\ UNCHANGED <<loading_active, loading_live, loading_task, lives, ui_pc,
                 ui_call, outsideLoading>>

\* self.loading_live = Live(loading_text, ..., transient=True)
animate_new(t) ==
  /\ threads[t] = "new"
  /\ Len(lives) < MaxLives
  /\ lives' = Append(lives, "created")
  /\ loading_live' = Len(lives) + 1
  /\ threads' = SetPc(t, "start")
  /\ UNCHANGED <<loading_active, loading_task, ui_pc, ui_call, outsideLoading>>

\* self.loading_live.start(): the field is read again, and None has no
\* start; a display that was stopped shows again
animate_start(t) ==
  /\ threads[t] = "start"
  /\ IF loading_live = NoLive
     THEN /\ threads' = SetPc(t, "crashed")
          /\ UNCHANGED lives
     ELSE /\ lives' = [lives EXCEPT ![loading_live] = "started"]
          /\ threads' = SetPc(t, "sleep")
  /\ UNCHANGED <<loading_active, loading_live, loading_task, ui_pc, ui_call,
                 outsideLoading>>

\* else: self.loading_live.update(loading_text): the field is read again
animate_update(t) ==
  /\ threads[t] = "update"
  /\ threads' = SetPc(t, IF loading_live = NoLive THEN "crashed" ELSE "sleep")
  /\ UNCHANGED <<loading_active, loading_live, loading_task, lives, ui_pc,
                 ui_call, outsideLoading>>

\* time.sleep(0.25); animation_count += 1
animate_sleep(t) ==
  /\ threads[t] = "sleep"
  /\ threads' = SetPc(t, "while")
  /\ UNCHANGED <<loading_active, loading_live, loading_task, lives, ui_pc,
                 ui_call, outsideLoading>>

InitLoading == InitClient

NextLoading ==
  \/ start_loading
  \/ start_thread
  \/ stop_loading
  \/ if_loading_live
  \/ live_stop
  \/ live_none
  \/ join_ended
  \/ join_timed_out
  \/ \E t \in DOMAIN threads : animate_while(t)
  \/ \E t \in DOMAIN threads : animate_if_live(t)
  \/ \E t \in DOMAIN threads : animate_new(t)
  \/ \E t \in DOMAIN threads : animate_start(t)
  \/ \E t \in DOMAIN threads : animate_update(t)
  \/ \E t \in DOMAIN threads : animate_sleep(t)

SpecLoading == InitLoading /\ [][NextLoading]_vars

----------------------------------------------------------------------------
(* Properties of the loading indicator *)

loadingFields == <<loading_active, loading_live, loading_task, lives, threads>>

\* the call that was made last has returned
ReturnedFrom(method) == ui_pc = "idle" /\ ui_call.op = method

\* a call of stop_loading while inactive or of start_loading while active
\* is made
CalledInVain ==
  /\ ui_pc = "idle"
  /\ ui_call' # ui_call
  /\ \/ ui_call'.op = "start_loading" /\ loading_active
     \/ ui_call'.op = "stop_loading" /\ ~loading_active

\* C31: loading_active is false before the first call, true when
\* start_loading has returned and false when stop_loading has returned; a
\* stop_loading while inactive and a start_loading while active return and
\* leave every field of the indicator as it was.
C31_LoadingActiveFollowsCalls ==
  /\ [](ui_call.op = "none" => ~loading_active)
  /\ [](ReturnedFrom("start_loading") => loading_active)
  /\ [](ReturnedFrom("stop_loading") => ~loading_active)
  /\ [][CalledInVain => ui_pc' = "idle" /\ UNCHANGED loadingFields]_vars

\* start_loading was called while the indicator of an earlier call was
\* active, and has returned: there is still one thread
C31_Witness ==
  /\ ReturnedFrom("start_loading")
  /\ ui_call.was
  /\ Len(threads) = 1
  /\ loading_task = 1

\* C38: when stop_loading has returned no loading display is left:
\* loading_live is None and no Live display shows, and none is created or
\* started until the next call.
C38_NoDisplayAfterStop ==
  /\ [](ReturnedFrom("stop_loading") =>
          /\ loading_live = NoLive
          /\ \A l \in DOMAIN lives : lives[l] # "started")
  /\ [][ReturnedFrom("stop_loading") /\ ui_call' = ui_call /\ ui_pc' = ui_pc
          => lives' = lives /\ loading_live' = loading_live]_vars

----------------------------------------------------------------------------
(* Further properties of DiffProcessor, over the record of the call *)

\* apply_edit was called for a file path with the marker, or with an
\* old_content that is the text of the file but for the whitespace around
\* either
FullRewrite ==
  /\ op = "apply_edit"
  /\ ~TheEdit.sep
  /\ \/ TheEdit.old_content = REWRITE_ENTIRE_FILE
     \/ /\ before[Target].kind = "file"
        /\ Trimmed(TheEdit.old_content) = Trimmed(before[Target].text)

\* C32: a full rewrite that succeeds leaves a file that holds new_content
\* and nothing else.
C32_FullRewriteLeavesNewContent ==
  (FullRewrite /\ TheResult.success) => fs[Target] = File(TheEdit.new_content)

\* a rewrite without the marker of a file that holds more than old_content,
\* in which old_content also occurs
C32_Witness ==
  /\ FullRewrite
  /\ TheResult.success
  /\ IsLiteral(TheEdit.old_content)
  /\ TheEdit.old_content # before[Target].text
  /\ Offsets(TheEdit.old_content, before[Target].text) # {}
  /\ TheEdit.new_content # <<>>

\* C33: when apply_edit succeeds on a state on which preview_edits reports
\* no error for the same edit of a file path, the text apply_edit leaves in
\* the file is the text the preview took for the file after the edit.
C33_PreviewShowsWhatApplyWrites ==
  (/\ op = "apply_edit"
   /\ ~TheEdit.sep
   /\ TheResult.success
   /\ preview_texts(before, TheEdit).error = "None")
    => fs[Target] = File(preview_texts(before, TheEdit).new)

\* what the call did to the file system raised: mkdir on a file, open for
\* reading on a directory, open for writing on a directory, or a write of a
\* text that cannot be encoded
IoFailed ==
  LET kind == before[Target].kind
      old == TheEdit.old_content
      writes == \/ WhitespaceOnly(old)
                \/ old = REWRITE_ENTIRE_FILE
                \/ kind = "file" /\ \/ Trimmed(old) = Trimmed(before[Target].text)
                                    \/ Offsets(old, before[Target].text) # {}
  IN  \/ /\ op = "apply_edit"
         /\ TheEdit.sep
         /\ kind = "file"
      \/ /\ op = "apply_edit"
         /\ ~TheEdit.sep
         /\ \/ kind = "dir"
            \/ kind = "absent" /\ IsLiteral(old)
            \/ writes /\ ~Utf8Text(TheEdit.new_content)
      \/ /\ op = "validate_edit"
         /\ IsLiteral(old)
         /\ kind = "dir"

Body(diff, tags) == {x \in 2..Len(diff) : diff[x].tag \in tags}

\* C40: in the chunk of a preview the header agrees with the body: the old
\* count is the number of context and "-" lines, the new count the number
\* of context and "+" lines, and the two starts are the 1-based numbers of
\* the chunk's first line in the old and in the new text.
C40_HeaderAgreesWithBody ==
  (op = "preview_edits" /\ previews[1].error = "None" /\ previews[1].diff # <<>>)
    => LET diff == previews[1].diff
           nums == diff[1].nums
           t == preview_texts(before, TheEdit)
       IN  /\ diff[1].tag = "@@"
           /\ nums[2] = Cardinality(Body(diff, {" ", "-"}))
           /\ nums[4] = Cardinality(Body(diff, {" ", "+"}))
           /\ nums[2] > 0 => nums[1] \in 1..Len(SplitLines(t.old))
           /\ nums[4] > 0 => nums[3] \in 1..Len(SplitLines(t.new))

----------------------------------------------------------------------------
(* Further properties of the todo list *)

InProgress == {i \in 1..Len(todos) : is_in_progress(todos[i])}

\* C35: at most one todo of the list is in_progress, after any calls of
\* set_plan, mark_in_progress, mark_completed, add_todo and remove_todo.
C35_AtMostOneInProgress == Cardinality(InProgress) <= 1

\* C37: after any such calls get_current_todo agrees with the statuses: the
\* todo it returns is in_progress, and it returns None only when no todo is
\* in_progress.
C37_CurrentTodoIsInProgress ==
  LET current == get_current_todo(todos, current_todo_id)
  IN  /\ current # <<>> => is_in_progress(current[1])
      /\ current = <<>> => InProgress = {}

----------------------------------------------------------------------------
(* Termination of the execution loop *)

LoopOver == pc \in {"done", "rejected", "error"}

\* a todo is taken up for processing
Selects == pc # "process" /\ pc' = "process"

\* C36: the loop ends for every plan and whatever the processing of each
\* todo comes to.  A todo is taken up only from the remaining ones and is
\* then no longer among them, and nothing is added to them, so that no todo
\* is taken up twice; and when the loop has run to its end none remains:
\* every todo of the plan was taken up.
C36_LoopTerminates ==
  /\ <>LoopOver
  /\ [][Selects =>
          /\ InSeq(current_todo'[1], remaining_todos)
          /\ ~InSeq(current_todo'[1], remaining_todos')
          /\ Len(remaining_todos') = Len(remaining_todos) - 1]_vars
  /\ [][pc # "plan" =>
          \A i \in 1..Len(remaining_todos') :
            InSeq(remaining_todos'[i], remaining_todos)]_vars
  /\ [](pc = "done" => remaining_todos = <<>>)

\* the loop has run to its end on a plan of two todos that wait for each
\* other, neither of which was completed
C36_Witness ==
  /\ pc = "done"
  /\ Len(todo_plan) = 2
  /\ todo_plan[1].dependencies = <<todo_plan[2].id>>
  /\ todo_plan[2].dependencies = <<todo_plan[1].id>>
  /\ completed_todos = <<>>

====
